---------------------------- MODULE Spec2Model ----------------------------
(***************************************************************************)
(* Multi-agent classroom scheduler: the constraint solver that produces    *)
(* the initial assignment A0 (csp_solver.py) and the negotiation engine    *)
(* that refines it (negotiation.py, agents.py, objective.py).              *)
(*                                                                         *)
(* Numbers: a preference score is kept in thousandths (0..1000), a cost in *)
(* millionths, so that every comparison the code makes on floats is made   *)
(* here on exact integers.                                                 *)
(***************************************************************************)
EXTENDS Integers, Sequences, FiniteSets, TLC

VARIABLES
    \* ---- the data dictionary of load_data (inputs, never written) ----
    course_ids,          \* data["course_ids"]: list of course ids
    professors,          \* data["professors"]: course -> professor
    enrollments,         \* data["enrollments"]: course -> enrollment
    room_capacities,     \* data["room_capacities"]: room -> capacity
    time_slot_ids,       \* keys of data["time_slot_details"], in file order
    \* ---- find_initial_assignment / python-constraint search state ----
    pc,                  \* position of the program
    domains,             \* course -> [vis, hidden, states] (constraint.Domain)
    assignments,         \* the solver's partial assignment
    queue,               \* the solver's stack of (variable, values, pushdomains)
    variable,            \* the variable being tried
    values,              \* its values still to try
    pushdomains,         \* the unassigned other variables (forward checking)
    solution,            \* what find_initial_assignment ended with
    \* ---- preferences.json, as load_data hands it on ----
    professor_preferences,   \* professor -> preference record
    student_enrollments,     \* student -> list of course ids
    student_preferences,     \* student -> preference record
    \* ---- the process: what Python's string hashing decides ----
    slot_order,          \* the order list(set(time slots)) comes out in
    agent_seed,          \* professor -> hash(prof) % (2**32)
    \* ---- the record of an earlier run of the same call (TwinSpec) ----
    rng_log,             \* agent -> per turn of this run, what its rng returned and what it proposed
    first_run,           \* the first run's process, draws and result
    \* ---- a call of one function on its own (FunctionSpec) ----
    call,                \* the last call: [op, args, result]
    \* ---- NegotiationProtocol ----
    schedule_A0,         \* the caller's A0: course -> (time slot, room)
    schedule,            \* self.schedule: course -> [time, room]
    rng,                 \* self.rng = random.Random(rng_seed): [seed, calls made to it]
    prof_agents,         \* self.prof_agents, sorted: [agent_id, courses, preferences]
    history_costs,       \* self.history_costs
    max_rounds,          \* run's parameters
    no_improve_limit,
    current_cost,        \* run's locals
    no_improve,
    improved,
    round,               \* rounds begun so far ("for _ in range(max_rounds)")
    agent_idx,           \* position of "for agent in self.prof_agents"
    prop                 \* the proposal of the agent turn last taken

dataVars   == <<course_ids, professors, enrollments, room_capacities, time_slot_ids,
                professor_preferences, student_enrollments, student_preferences>>
solverVars == <<domains, assignments, queue, variable, values, pushdomains, solution>>
engineVars == <<schedule_A0, schedule, rng, prof_agents, history_costs, max_rounds,
                no_improve_limit, current_cost, no_improve, improved, round,
                agent_idx, prop>>
processVars == <<slot_order, agent_seed>>
twinVars   == <<rng_log, first_run>>
callVars   == <<call>>
vars       == <<dataVars, pc, solverVars, processVars, engineVars, twinVars, callVars>>

None == "None"

(***************************************************************************)
(* Sequence helpers (Python list operations).                              *)
(***************************************************************************)
Range(s) == {s[i] : i \in 1..Len(s)}

\* list.remove(value): drop the first occurrence
RECURSIVE ListRemove(_, _)
ListRemove(s, v) ==
    IF s = <<>> THEN <<>>
    ELSE IF Head(s) = v THEN Tail(s)
    ELSE <<Head(s)>> \o ListRemove(Tail(s), v)

\* [x for x in s if x in S]
RECURSIVE Filter(_, _)
Filter(s, S) ==
    IF s = <<>> THEN <<>>
    ELSE IF Head(s) \in S THEN <<Head(s)>> \o Filter(Tail(s), S)
    ELSE Filter(Tail(s), S)

Last(s)    == s[Len(s)]
ButLast(s) == SubSeq(s, 1, Len(s) - 1)

(***************************************************************************)
(* The input catalogue: the courses, professors, rooms and time slots an   *)
(* input file may hold.  An input is a selection of these, in this order.  *)
(***************************************************************************)
\* the largest number of time slots of an input
MaxSlots == 2
\* the largest max_rounds run is called with
MaxRoundsBound == 2

CourseCatalog == <<"CS_180", "CS_240", "CS_307">>
ProfessorIds  == {"Prof_A", "Prof_B"}
RoomCatalog   == <<"LWSN_B155", "EE_129">>
RoomCapacity  == [r \in Range(RoomCatalog) |->
                    IF r = "LWSN_B155" THEN 50 ELSE 200]
EnrollmentValues == {30, 120, 500}

SlotCatalog == <<"MWF_1030", "MWF_1045", "MWF_1130", "TR_1030", "F_1400">>

\* further slots of an input file: one that starts when MWF_1030 ends, and
\* one that shares a single weekday with it
AdjacentSlots == <<"MWF_1120", "F_1030">>

\* slots that start at the edges of the morning and afternoon windows
WindowEdgeSlots == <<"M_0630", "M_0700", "M_1200", "M_1630", "M_1700">>

\* data["time_slot_details"]: id -> {days, start_time "HH:MM", duration_min}
time_slot_details ==
    [ts \in Range(SlotCatalog) \cup Range(AdjacentSlots) \cup Range(WindowEdgeSlots) |->
        CASE ts = "MWF_1030" -> [days |-> {"M", "W", "F"}, start_time |-> <<10, 30>>, duration_min |-> 50]
          [] ts = "MWF_1045" -> [days |-> {"M", "W", "F"}, start_time |-> <<10, 45>>, duration_min |-> 50]
          [] ts = "MWF_1130" -> [days |-> {"M", "W", "F"}, start_time |-> <<11, 30>>, duration_min |-> 50]
          [] ts = "TR_1030"  -> [days |-> {"T", "R"},      start_time |-> <<10, 30>>, duration_min |-> 75]
          [] ts = "F_1400"   -> [days |-> {"F"},           start_time |-> <<14, 0>>,  duration_min |-> 50]
          [] ts = "MWF_1120" -> [days |-> {"M", "W", "F"}, start_time |-> <<11, 20>>, duration_min |-> 50]
          [] ts = "F_1030"   -> [days |-> {"F"},           start_time |-> <<10, 30>>, duration_min |-> 50]
          [] ts = "M_0630"   -> [days |-> {"M"},           start_time |-> <<6, 30>>,  duration_min |-> 50]
          [] ts = "M_0700"   -> [days |-> {"M"},           start_time |-> <<7, 0>>,   duration_min |-> 50]
          [] ts = "M_1200"   -> [days |-> {"M"},           start_time |-> <<12, 0>>,  duration_min |-> 50]
          [] ts = "M_1630"   -> [days |-> {"M"},           start_time |-> <<16, 30>>, duration_min |-> 50]
          [] ts = "M_1700"   -> [days |-> {"M"},           start_time |-> <<17, 0>>,  duration_min |-> 50]]

\* the position of a course id in sorted (string) order
CourseRank(c) == CHOOSE i \in 1..Len(CourseCatalog) : CourseCatalog[i] = c

\* rooms.keys(), in file order
room_ids == Filter(RoomCatalog, DOMAIN room_capacities)

\* load_data: full_domain = [(ts, room) for ts in time slots for room in rooms]
RECURSIVE DomainRows(_, _)
DomainRows(tss, rooms) ==
    IF tss = <<>> THEN <<>>
    ELSE [i \in 1..Len(rooms) |-> <<Head(tss), rooms[i]>>] \o DomainRows(Tail(tss), rooms)

full_domain == DomainRows(time_slot_ids, room_ids)

(***************************************************************************)
(* Time intervals and the two overlap tests.                               *)
(***************************************************************************)
\* datetime.strptime("HH:MM") as minutes since midnight, and the end
get_interval(ts) ==
    LET d     == time_slot_details[ts]
        start == 60 * d.start_time[1] + d.start_time[2]
    IN  <<start, start + d.duration_min>>

CommonDays(ts1, ts2) == time_slot_details[ts1].days \cap time_slot_details[ts2].days

\* a variant of the predicate that compares one start with one end only
timeslots_overlap_one_sided(ts1, ts2) ==
    IF CommonDays(ts1, ts2) = {} THEN FALSE
    ELSE get_interval(ts1)[1] < get_interval(ts2)[2]

\* a variant of the predicate that counts touching intervals as overlapping
timeslots_overlap_closed(ts1, ts2) ==
    IF CommonDays(ts1, ts2) = {} THEN FALSE
    ELSE get_interval(ts1)[1] <= get_interval(ts2)[2]
         /\ get_interval(ts2)[1] <= get_interval(ts1)[2]

\* utils.timeslots_overlap: the canonical predicate
timeslots_overlap(ts1, ts2) ==
    IF CommonDays(ts1, ts2) = {} THEN FALSE
    ELSE get_interval(ts1)[1] < get_interval(ts2)[2]
         /\ get_interval(ts2)[1] < get_interval(ts1)[2]

\* csp_solver.timeslots_overlap pops two days off common_days: with exactly
\* one common day the second pop raises KeyError.
csp_overlap_raises(ts1, ts2) == Cardinality(CommonDays(ts1, ts2)) = 1

\* csp_solver.timeslots_overlap, where it returns
csp_timeslots_overlap(ts1, ts2) ==
    IF CommonDays(ts1, ts2) = {} THEN FALSE
    ELSE get_interval(ts1)[1] < get_interval(ts2)[2]
         /\ get_interval(ts2)[1] < get_interval(ts1)[2]


(***************************************************************************)
(* find_initial_assignment: the constraints handed to python-constraint.   *)
(* A constraint function ends in "T", "F" or "KeyError" (raised).          *)
(***************************************************************************)
check_room_collision(assignment_1, assignment_2) ==
    IF assignment_1[2] /= assignment_2[2] THEN "T"
    ELSE IF csp_overlap_raises(assignment_1[1], assignment_2[1]) THEN "KeyError"
    ELSE IF csp_timeslots_overlap(assignment_1[1], assignment_2[1]) THEN "F"
    ELSE "T"

\* a variant that lets one professor's courses overlap
check_instructor_conflict_unchecked(assignment_1, assignment_2) == "T"

check_instructor_conflict(assignment_1, assignment_2) ==
    IF csp_overlap_raises(assignment_1[1], assignment_2[1]) THEN "KeyError"
    ELSE IF csp_timeslots_overlap(assignment_1[1], assignment_2[1]) THEN "F"
    ELSE "T"

\* lambda assignment, limit: room_capacities[assignment[1]] >= limit
capacity_ok(assignment, limit) == room_capacities[assignment[2]] >= limit

\* the (i, j) pairs of "for i in range(n): for j in range(i + 1, n)"
RECURSIVE PairsFrom(_, _, _)
PairsFrom(i, j, n) ==
    IF i > n THEN <<>>
    ELSE IF j > n THEN PairsFrom(i + 1, i + 2, n)
    ELSE <<<<i, j>>>> \o PairsFrom(i, j + 1, n)

CoursePairs == PairsFrom(1, 2, Len(course_ids))

RECURSIVE RoomConstraints(_)
RoomConstraints(ps) ==
    IF ps = <<>> THEN <<>>
    ELSE <<[kind |-> "room",
            vars |-> <<course_ids[Head(ps)[1]], course_ids[Head(ps)[2]]>>]>>
         \o RoomConstraints(Tail(ps))

RECURSIVE InstructorConstraints(_)
InstructorConstraints(ps) ==
    IF ps = <<>> THEN <<>>
    ELSE LET ca == course_ids[Head(ps)[1]]
             cb == course_ids[Head(ps)[2]]
         IN  (IF professors[ca] = professors[cb]
              THEN <<[kind |-> "instructor", vars |-> <<ca, cb>>]>>
              ELSE <<>>)
             \o InstructorConstraints(Tail(ps))

\* problem._constraints once the unary capacity constraints are preprocessed away
constraints == RoomConstraints(CoursePairs) \o InstructorConstraints(CoursePairs)

RECURSIVE ConstraintsOf(_, _)
ConstraintsOf(cs, v) ==
    IF cs = <<>> THEN <<>>
    ELSE (IF v \in Range(Head(cs).vars) THEN <<Head(cs)>> ELSE <<>>)
         \o ConstraintsOf(Tail(cs), v)

vconstraints(v) == ConstraintsOf(constraints, v)

\* FunctionConstraint._func(*parms) for the two binary constraints
ConstraintFunc(c, a1, a2) ==
    IF c.kind = "room" THEN check_room_collision(a1, a2)
    ELSE check_instructor_conflict(a1, a2)

(***************************************************************************)
(* constraint.Domain: a list with hidden values and saved lengths.         *)
(***************************************************************************)
NewDomain(vals) == [vis |-> vals, hidden |-> <<>>, states |-> <<>>]

hideValue(d, v) == [d EXCEPT !.vis = ListRemove(d.vis, v), !.hidden = Append(d.hidden, v)]

pushState(d) == [d EXCEPT !.states = Append(d.states, Len(d.vis))]

popState(d) ==
    LET diff == Last(d.states) - Len(d.vis)
        n    == Len(d.hidden)
    IN  [vis    |-> d.vis \o SubSeq(d.hidden, n - diff + 1, n),
         hidden |-> SubSeq(d.hidden, 1, n - diff),
         states |-> ButLast(d.states)]

\* Constraint.preProcess of the capacity constraint of course c
RECURSIVE KeepFitting(_, _)
KeepFitting(vals, limit) ==
    IF vals = <<>> THEN <<>>
    ELSE (IF capacity_ok(Head(vals), limit) THEN <<Head(vals)>> ELSE <<>>)
         \o KeepFitting(Tail(vals), limit)

(***************************************************************************)
(* Constraint.forwardCheck: try every value of the one unassigned variable *)
(* u against the assignment, hiding the values the function rejects.       *)
(***************************************************************************)
CallFunc(c, asg) == ConstraintFunc(c, asg[c.vars[1]], asg[c.vars[2]])

RECURSIVE ForwardLoop(_, _, _, _, _)
ForwardLoop(c, asg, u, vals, d) ==
    IF vals = <<>>
    THEN [status |-> IF d.vis = <<>> THEN "F" ELSE "T", dom |-> d]
    ELSE LET r == CallFunc(c, (u :> Head(vals)) @@ asg)
         IN  IF r = "KeyError" THEN [status |-> "KeyError", dom |-> d]
             ELSE ForwardLoop(c, asg, u, Tail(vals),
                              IF r = "F" THEN hideValue(d, Head(vals)) ELSE d)

\* FunctionConstraint.__call__(variables, domains, assignments, forwardcheck)
CallConstraint(c, doms, asg, forwardcheck) ==
    LET missing == {x \in Range(c.vars) : x \notin DOMAIN asg}
    IN  IF missing = {}
        THEN [status |-> CallFunc(c, asg), doms |-> doms]
        ELSE IF forwardcheck /\ Cardinality(missing) = 1
        THEN LET u  == CHOOSE x \in missing : TRUE
                 fc == ForwardLoop(c, asg, u, doms[u].vis, doms[u])
             IN  [status |-> fc.status, doms |-> [doms EXCEPT ![u] = fc.dom]]
        ELSE [status |-> "T", doms |-> doms]

\* for constraint, variables in vconstraints[variable]: stop at the first
\* one that fails (or raises)
RECURSIVE CheckAll(_, _, _, _)
CheckAll(cs, doms, asg, forwardcheck) ==
    IF cs = <<>> THEN [status |-> "T", doms |-> doms]
    ELSE LET r == CallConstraint(Head(cs), doms, asg, forwardcheck)
         IN  IF r.status /= "T" THEN r
             ELSE CheckAll(Tail(cs), r.doms, asg, forwardcheck)

\* the sort key of the Degree / Minimum-Remaining-Values heuristic
KeyLess(a, b) ==
    LET ka == <<0 - Len(vconstraints(a)), Len(domains[a].vis), CourseRank(a)>>
        kb == <<0 - Len(vconstraints(b)), Len(domains[b].vis), CourseRank(b)>>
    IN  \/ ka[1] < kb[1]
        \/ ka[1] = kb[1] /\ ka[2] < kb[2]
        \/ ka[1] = kb[1] /\ ka[2] = kb[2] /\ ka[3] < kb[3]

Unassigned == {c \in Range(course_ids) : c \notin DOMAIN assignments}

Restrict(f, S) == [x \in S |-> f[x]]

(***************************************************************************)
(* Actions of find_initial_assignment.                                     *)
(***************************************************************************)
\* Problem(), addVariables, addConstraint ..., and getSolution's _getArgs:
\* the capacity constraints prune each domain; an empty domain ends the
\* solve with None.
Preprocess ==
    /\ pc = "start"
    /\ LET doms == [c \in Range(course_ids) |->
                      NewDomain(KeepFitting(full_domain, enrollments[c]))]
       IN  /\ domains' = doms
           /\ IF \E c \in Range(course_ids) : doms[c].vis = <<>>
              THEN pc' = "infeasible"
              ELSE pc' = "select"
    /\ UNCHANGED <<dataVars, assignments, queue, variable, values, pushdomains, solution>>
    /\ UNCHANGED <<processVars, engineVars, twinVars, callVars>>

\* the head of getSolutionIter's outer loop: the first unassigned variable
\* in heuristic order, or the solution when none is left
SelectVariable ==
    /\ pc = "select"
    /\ IF Unassigned = {}
       THEN /\ solution' = assignments
            /\ pc' = "solved"
            /\ UNCHANGED <<variable, values, pushdomains>>
       ELSE LET v == CHOOSE a \in Unassigned : \A b \in Unassigned \ {a} : KeyLess(a, b)
            IN  /\ variable' = v
                /\ values' = domains[v].vis
                /\ pushdomains' = Filter(course_ids, Unassigned \ {v})
                /\ pc' = "try"
                /\ UNCHANGED solution
    /\ UNCHANGED <<dataVars, domains, assignments, queue, processVars, engineVars, twinVars, callVars>>

\* "Got a value. Check it.": assign values.pop(), push the other domains'
\* states, run the variable's constraints with forward checking
TryValue ==
    /\ pc = "try"
    /\ values /= <<>>
    /\ LET val    == Last(values)
           asg    == (variable :> val) @@ assignments
           pushed == [c \in DOMAIN domains |->
                        IF c \in Range(pushdomains) THEN pushState(domains[c])
                        ELSE domains[c]]
           r      == CheckAll(vconstraints(variable), pushed, asg, pushdomains /= <<>>)
       IN  /\ assignments' = asg
           /\ values' = ButLast(values)
           /\ CASE r.status = "T" ->
                     /\ domains' = r.doms
                     /\ queue' = Append(queue, [variable |-> variable,
                                                values |-> ButLast(values),
                                                pushdomains |-> pushdomains])
                     /\ pc' = "select"
                [] r.status = "F" ->
                     /\ domains' = [c \in DOMAIN domains |->
                                      IF c \in Range(pushdomains) THEN popState(r.doms[c])
                                      ELSE r.doms[c]]
                     /\ UNCHANGED queue
                     /\ pc' = "try"
                [] r.status = "KeyError" ->
                     /\ domains' = r.doms
                     /\ UNCHANGED queue
                     /\ pc' = "solve_raised"
    /\ UNCHANGED <<dataVars, variable, pushdomains, solution, processVars, engineVars,
                   twinVars, callVars>>

\* "No values left. Go back to last variable, if there's one."
Backtrack ==
    /\ pc = "try"
    /\ values = <<>>
    /\ assignments' = Restrict(assignments, DOMAIN assignments \ {variable})
    /\ IF queue = <<>>
       THEN /\ pc' = "infeasible"
            /\ UNCHANGED <<domains, queue, variable, values, pushdomains>>
       ELSE LET top == Last(queue)
            IN  /\ queue' = ButLast(queue)
                /\ variable' = top.variable
                /\ values' = top.values
                /\ pushdomains' = top.pushdomains
                /\ domains' = [c \in DOMAIN domains |->
                                 IF c \in Range(top.pushdomains) THEN popState(domains[c])
                                 ELSE domains[c]]
                /\ pc' = "try"
    /\ UNCHANGED <<dataVars, solution, processVars, engineVars, twinVars, callVars>>

(***************************************************************************)
(* preference_scoring.py.  Scores are in thousandths.                      *)
(***************************************************************************)
\* dict.get(key, default)
Get(d, k, default) == IF k \in DOMAIN d THEN d[k] ELSE default

\* the nearest integer to a / b, ties to the even one (Python's round)
RoundHalfEven(a, b) ==
    LET q == a \div b
        r == a % b
    IN  IF 2 * r < b THEN q
        ELSE IF 2 * r > b THEN q + 1
        ELSE IF q % 2 = 0 THEN q ELSE q + 1

\* a variant of the time score whose morning window includes 12:00
score_time_of_day_noon_in_morning(ts, prefs) ==
    LET time_pref == Get(prefs, "time_of_day", "no_preference")
        hour      == time_slot_details[ts].start_time[1]
    IN  IF time_pref = "no_preference" THEN 500
        ELSE IF time_pref = "morning"
             THEN (IF 7 <= hour /\ hour <= 12 THEN 1000 ELSE 200)
        ELSE IF time_pref = "afternoon"
             THEN (IF 12 <= hour /\ hour < 17 THEN 1000 ELSE 200)
        ELSE 500

\* preference_scoring.score_time_of_day, in thousandths
score_time_of_day(ts, prefs) ==
    LET time_pref == Get(prefs, "time_of_day", "no_preference")
        hour      == time_slot_details[ts].start_time[1]
    IN  IF time_pref = "no_preference" THEN 500
        ELSE IF time_pref = "morning"
             THEN (IF 7 <= hour /\ hour < 12 THEN 1000 ELSE 200)
        ELSE IF time_pref = "afternoon"
             THEN (IF 12 <= hour /\ hour < 17 THEN 1000 ELSE 200)
        ELSE 500

\* a variant of the day score that looks at the preferred days first
score_days_of_week_preferred_first(ts, prefs) ==
    LET preferred_days == Get(prefs, "preferred_days", {})
        avoid_days     == Get(prefs, "avoid_days", {})
        slot_days      == time_slot_details[ts].days
        n              == Cardinality(slot_days)
    IN  IF preferred_days /= {} /\ slot_days \cap preferred_days /= {}
        THEN <<500 * n + 500 * Cardinality(slot_days \cap preferred_days), n>>
        ELSE IF slot_days \cap avoid_days /= {} THEN <<100, 1>>
        ELSE IF preferred_days = {} /\ avoid_days = {} THEN <<500, 1>>
        ELSE <<300, 1>>

\* the day score as a fraction <<numerator, denominator>> of thousandths
score_days_of_week(ts, prefs) ==
    LET preferred_days == Get(prefs, "preferred_days", {})
        avoid_days     == Get(prefs, "avoid_days", {})
        slot_days      == time_slot_details[ts].days
        n              == Cardinality(slot_days)
    IN  IF slot_days \cap avoid_days /= {} THEN <<100, 1>>
        ELSE IF preferred_days /= {} /\ slot_days \cap preferred_days /= {}
             THEN <<500 * n + 500 * Cardinality(slot_days \cap preferred_days), n>>
        ELSE IF preferred_days = {} /\ avoid_days = {} THEN <<500, 1>>
        ELSE <<300, 1>>

\* a variant of the score that adds the two parts without halving them
calculate_preference_score_summed(ts, prefs) ==
    LET t == score_time_of_day(ts, prefs)
        d == score_days_of_week(ts, prefs)
    IN  RoundHalfEven(t * d[2] + d[1], d[2])

\* round(0.5 * time_score + 0.5 * day_score, 3)
calculate_preference_score(ts, prefs) ==
    LET t == score_time_of_day(ts, prefs)
        d == score_days_of_week(ts, prefs)
    IN  RoundHalfEven(t * d[2] + d[1], 2 * d[2])

(***************************************************************************)
(* objective.py.  Weights are in tenths, the total cost in millionths.     *)
(***************************************************************************)
W_STUDENT_CONFLICT == 10
W_STUDENT_PREF     == 3
W_PROF             == 5
MAX_PENALTY        == 5
STUDENT_MAX_PENALTY == 3

RECURSIVE SumSeq(_)
SumSeq(s) == IF s = <<>> THEN 0 ELSE Head(s) + SumSeq(Tail(s))

RECURSIVE SumFn(_)
SumFn(f) ==
    IF DOMAIN f = {} THEN 0
    ELSE LET x == CHOOSE x \in DOMAIN f : TRUE
         IN  f[x] + SumFn([y \in DOMAIN f \ {x} |-> f[y]])

\* a variant that counts a pair of positions once in each order
StudentOverlaps_ordered(sched, courses) ==
    Cardinality({ij \in (1..Len(courses)) \X (1..Len(courses)) :
                    /\ ij[1] /= ij[2]
                    /\ courses[ij[1]] \in DOMAIN sched
                    /\ courses[ij[2]] \in DOMAIN sched
                    /\ timeslots_overlap(sched[courses[ij[1]]].time,
                                         sched[courses[ij[2]]].time)})

\* the overlapping pairs i < j of one student's course list
StudentOverlaps(sched, courses) ==
    Cardinality({ij \in (1..Len(courses)) \X (1..Len(courses)) :
                    /\ ij[1] < ij[2]
                    /\ courses[ij[1]] \in DOMAIN sched
                    /\ courses[ij[2]] \in DOMAIN sched
                    /\ timeslots_overlap(sched[courses[ij[1]]].time,
                                         sched[courses[ij[2]]].time)})

\* calculate_student_conflicts(schedule, student_enrollments, time_slot_details)
\* on a given student_enrollments argument
student_conflicts_of(sched, enrolled) ==
    SumFn([sid \in DOMAIN enrolled |-> StudentOverlaps(sched, enrolled[sid])])

calculate_student_conflicts(sched) == student_conflicts_of(sched, student_enrollments)

\* professor -> total enrollment of the professor's courses
professor_enrollment(prof) ==
    SumFn([c \in {x \in DOMAIN professors : professors[x] = prof} |->
              Get(enrollments, c, 0)])

\* preference_to_penalty_linear, in thousandths
preference_to_penalty_linear(preference_score) == MAX_PENALTY * (1000 - preference_score)

\* a variant of the professor penalty weighted by the course's own enrollment
calculate_professor_penalty_course_enrollment(sched) ==
    SumFn([course \in DOMAIN sched |->
              LET prof  == professors[course]
                  prefs == Get(professor_preferences, prof, <<>>)
                  score == calculate_preference_score(sched[course].time, prefs)
              IN  preference_to_penalty_linear(score) * Get(enrollments, course, 0)])

\* sum of calculate_penalty(score, E / 100.0), in units of 1e-5 (thousandths
\* of penalty, over normalize_enrollment_weight's factor 100)
calculate_professor_penalty(sched) ==
    SumFn([course \in DOMAIN sched |->
              LET prof  == professors[course]
                  prefs == Get(professor_preferences, prof, <<>>)
                  score == calculate_preference_score(sched[course].time, prefs)
              IN  preference_to_penalty_linear(score) * professor_enrollment(prof)])

\* sum of 3.0 * (1 - score) over (student, course in the schedule), in thousandths
\* a variant that charges the full penalty for a listed course that the
\* schedule does not hold
student_preference_penalty_charging_absent(sched, enrolled) ==
    SumFn([sid \in DOMAIN enrolled |->
              LET prefs   == Get(student_preferences, sid, <<>>)
                  courses == enrolled[sid]
              IN  SumSeq([i \in 1..Len(courses) |->
                            IF courses[i] \in DOMAIN sched
                            THEN STUDENT_MAX_PENALTY
                                 * (1000 - calculate_preference_score(sched[courses[i]].time, prefs))
                            ELSE STUDENT_MAX_PENALTY * 1000])])

\* calculate_student_preference_penalty(schedule, student_preferences,
\* student_enrollments, time_slot_details) on a given student_enrollments
\* argument: "if course not in schedule: continue"
student_preference_penalty_of(sched, enrolled) ==
    SumFn([sid \in DOMAIN enrolled |->
              LET prefs   == Get(student_preferences, sid, <<>>)
                  courses == enrolled[sid]
              IN  SumSeq([i \in 1..Len(courses) |->
                            IF courses[i] \in DOMAIN sched
                            THEN STUDENT_MAX_PENALTY
                                 * (1000 - calculate_preference_score(sched[courses[i]].time, prefs))
                            ELSE 0])])

calculate_student_preference_penalty(sched) ==
    student_preference_penalty_of(sched, student_enrollments)

\* a variant of the total cost with the three weights equal
calculate_total_cost_equal_weights(sched) ==
    W_STUDENT_CONFLICT * calculate_student_conflicts(sched) * 100000
    + W_STUDENT_CONFLICT * calculate_student_preference_penalty(sched) * 100
    + W_STUDENT_CONFLICT * calculate_professor_penalty(sched)

\* w1 * conflicts + w2 * student penalty + w3 * professor penalty, in millionths
calculate_total_cost(sched) ==
    W_STUDENT_CONFLICT * calculate_student_conflicts(sched) * 100000
    + W_STUDENT_PREF * calculate_student_preference_penalty(sched) * 100
    + W_PROF * calculate_professor_penalty(sched)

\* calculate_total_cost(schedule, data) on a data dictionary that differs
\* from the engine's in data["student_enrollments"] only
total_cost_of(sched, enrolled) ==
    W_STUDENT_CONFLICT * student_conflicts_of(sched, enrolled) * 100000
    + W_STUDENT_PREF * student_preference_penalty_of(sched, enrolled) * 100
    + W_PROF * calculate_professor_penalty(sched)

(***************************************************************************)
(* agents.py: proposals, the registrar and the professor agents.           *)
(***************************************************************************)
NoProposal == [proposal_type |-> "none"]

SingleProposal(course, new_assignment) ==
    [proposal_type |-> "single", course_a |-> course, new_assignment_a |-> new_assignment,
     course_b |-> None, new_assignment_b |-> <<>>]

SwapProposal(c1, a1, c2, a2) ==
    [proposal_type |-> "swap", course_a |-> c1, new_assignment_a |-> a1,
     course_b |-> c2, new_assignment_b |-> a2]

\* a variant that loses the proposal's first course
_apply_proposal_dropping(sched, proposal) ==
    [c \in DOMAIN sched \ {proposal.course_a} |-> sched[c]]

\* the schedule with the proposal's one or two entries replaced
\* (validates' "updated", _apply_proposal's "ns")
_apply_proposal(sched, proposal) ==
    IF proposal.proposal_type = "single"
    THEN [sched EXCEPT ![proposal.course_a] =
              [time |-> proposal.new_assignment_a[1], room |-> proposal.new_assignment_a[2]]]
    ELSE [c \in DOMAIN sched |->
            IF c = proposal.course_b
            THEN [time |-> proposal.new_assignment_b[1], room |-> proposal.new_assignment_b[2]]
            ELSE IF c = proposal.course_a
            THEN [time |-> proposal.new_assignment_a[1], room |-> proposal.new_assignment_a[2]]
            ELSE sched[c]]

\* usage[room]: the time slots of the courses in that room, in schedule order
RECURSIVE UsageOf(_, _, _)
UsageOf(updated, cs, room) ==
    IF cs = <<>> THEN <<>>
    ELSE (IF updated[Head(cs)].room = room THEN <<updated[Head(cs)].time>> ELSE <<>>)
         \o UsageOf(updated, Tail(cs), room)

\* the courses of a schedule in dictionary order
ScheduleOrder(sched) == Filter(course_ids, DOMAIN sched)

\* a variant of validates without the capacity check
validates_without_capacity(sched, proposal) ==
    LET updated == _apply_proposal(sched, proposal)
    IN  \A c1, c2 \in DOMAIN updated :
            (c1 /= c2 /\ updated[c1].room = updated[c2].room)
                => ~timeslots_overlap(updated[c1].time, updated[c2].time)

\* a variant of validates that also rejects instructor collisions
validates_with_instructor_check(sched, proposal) ==
    LET updated == _apply_proposal(sched, proposal)
    IN  /\ \A c \in DOMAIN updated : room_capacities[updated[c].room] >= enrollments[c]
        /\ \A c1, c2 \in DOMAIN updated :
               (c1 /= c2 /\ (updated[c1].room = updated[c2].room
                             \/ professors[c1] = professors[c2]))
                   => ~timeslots_overlap(updated[c1].time, updated[c2].time)

\* a variant of validates that looks at the proposal's courses only
validates_changed_courses_only(sched, proposal) ==
    LET updated == _apply_proposal(sched, proposal)
        changed == {proposal.course_a, proposal.course_b} \cap DOMAIN updated
    IN  /\ \A c \in changed : room_capacities[updated[c].room] >= enrollments[c]
        /\ \A c1 \in changed : \A c2 \in DOMAIN updated :
               (c1 /= c2 /\ updated[c1].room = updated[c2].room)
                   => ~timeslots_overlap(updated[c1].time, updated[c2].time)

\* RegistrarAgent.validates
validates(sched, proposal) ==
    LET updated == _apply_proposal(sched, proposal)
        rooms   == {updated[c].room : c \in DOMAIN updated}
    IN  /\ \A course \in DOMAIN updated :
              ~(room_capacities[updated[course].room] < enrollments[course])
        /\ \A room \in rooms :
              LET ts_list == UsageOf(updated, ScheduleOrder(updated), room)
              IN  \A i \in 1..Len(ts_list) : \A j \in (i + 1)..Len(ts_list) :
                     ~timeslots_overlap(ts_list[i], ts_list[j])

\* The dicts validates works on.  A schedule is a dict of dicts: the outer
\* dict holds, per course, a reference to an inner dict {"time", "room"}.
\* The caller's inner dicts are the objects 1..n of the heap, in dictionary
\* order.
CallerRefs(sched) ==
    [c \in DOMAIN sched |->
        CHOOSE a \in 1..Len(ScheduleOrder(sched)) : ScheduleOrder(sched)[a] = c]

CallerHeap(sched) ==
    [a \in 1..Len(ScheduleOrder(sched)) |-> sched[ScheduleOrder(sched)[a]]]

\* a variant of the copy that makes a new outer dict of the same inner dicts
copy_entries_shared(refs, heap) == [refs |-> refs, heap |-> heap]

\* "{c: v.copy() for c, v in schedule.items()}": a new outer dict whose
\* entries are new inner dicts with the contents of the old ones
copy_entries(refs, heap) ==
    [refs |-> [c \in DOMAIN refs |-> Len(heap) + refs[c]], heap |-> heap \o heap]

\* "updated[c]["time"], updated[c]["room"] = ts, room"
write_entry(st, c, new_assignment) ==
    [st EXCEPT !.heap[st.refs[c]] =
        [time |-> new_assignment[1], room |-> new_assignment[2]]]

\* validates up to the end of its writes: updated and the heap
validates_writes(sched, proposal) ==
    LET updated == copy_entries(CallerRefs(sched), CallerHeap(sched))
    IN  IF proposal.proposal_type = "single"
        THEN write_entry(updated, proposal.course_a, proposal.new_assignment_a)
        ELSE write_entry(write_entry(updated, proposal.course_a, proposal.new_assignment_a),
                         proposal.course_b, proposal.new_assignment_b)

\* the schedule the caller holds when validates has returned
schedule_after_validates(sched, proposal) ==
    [c \in DOMAIN sched |-> validates_writes(sched, proposal).heap[CallerRefs(sched)[c]]]

\* ProfessorAgent._score_time_slot, in thousandths
_score_time_slot(preferences, ts) ==
    IF preferences = <<>> THEN 1000
    ELSE calculate_preference_score(ts, preferences) + 100

\* a variant of _domain_dict that offers a course only the rooms it fits in
_domain_dict_fitting_rooms ==
    [course \in Range(course_ids) |->
        SelectSeq(full_domain, LAMBDA row : room_capacities[row[2]] >= enrollments[course])]

\* NegotiationProtocol._domain_dict, the full_domain argument of every agent:
\* {course: self.data["full_domain"] for course in self.data["course_ids"]}
_domain_dict == [course \in Range(course_ids) |-> full_domain]

\* "[room for ts, room in domain if ts == selected_ts]"
RoomsAt(domain, selected_ts) ==
    LET rows == SelectSeq(domain, LAMBDA row : row[1] = selected_ts)
    IN  [i \in 1..Len(rows) |-> rows[i][2]]

\* the granularity of rng.random(): its values are k / RngGrain
RngGrain == 5

\* "for ts, score in zip(...): acc += score; if r <= acc: selected_ts = ts; break"
\* with r = (rnum / RngGrain) * total_score
RECURSIVE SelectSlot(_, _, _, _, _)
SelectSlot(slots, weights, acc, rnum, total) ==
    IF slots = <<>> THEN None
    ELSE IF rnum * total <= (acc + Head(weights)) * RngGrain THEN Head(slots)
    ELSE SelectSlot(Tail(slots), Tail(weights), acc + Head(weights), rnum, total)

\* what the agent's rng can return in one call of generate_proposal:
\* choice(courses); random() < 0.7; then random() and choice(possible_rooms),
\* or sample(courses, 2) when the agent has two courses
AgentDraws(agent) ==
    [course : 1..Len(agent.courses), single : {TRUE}, rnum : 0..(RngGrain - 1),
     room : 1..Len(room_ids), other : {<<0, 0>>}]
    \cup
    [course : 1..Len(agent.courses), single : {FALSE}, rnum : {0}, room : {0},
     other : IF Len(agent.courses) < 2 THEN {<<0, 0>>}
             ELSE {ij \in (1..Len(agent.courses)) \X (1..Len(agent.courses)) :
                      ij[1] /= ij[2]}]

\* a variant of generate_proposal that also proposes the current assignment
generate_proposal_with_noops(agent, sched, d) ==
    IF agent.courses = <<>> THEN NoProposal
    ELSE
    LET course == agent.courses[d.course]
    IN  IF d.single
        THEN LET time_slots_in_domain == slot_order
                 scores   == [i \in 1..Len(time_slots_in_domain) |->
                                 _score_time_slot(agent.preferences, time_slots_in_domain[i])]
                 total    == SumSeq(scores)
                 picked   == SelectSlot(time_slots_in_domain, scores, 0, d.rnum, total)
                 selected == IF picked = None THEN time_slots_in_domain[1] ELSE picked
                 possible_rooms == room_ids
                 new_room == possible_rooms[d.room]
             IN  SingleProposal(course, <<selected, new_room>>)
        ELSE IF Len(agent.courses) < 2 THEN NoProposal
        ELSE LET c1 == agent.courses[d.other[1]]
                 c2 == agent.courses[d.other[2]]
             IN  SwapProposal(c1, <<sched[c2].time, sched[c2].room>>,
                              c2, <<sched[c1].time, sched[c1].room>>)

\* a variant of generate_proposal whose swap gives each course its own assignment
generate_proposal_swap_unexchanged(agent, sched, d) ==
    IF agent.courses = <<>> THEN NoProposal
    ELSE
    LET course == agent.courses[d.course]
    IN  IF d.single
        THEN LET time_slots_in_domain == slot_order
                 scores   == [i \in 1..Len(time_slots_in_domain) |->
                                 _score_time_slot(agent.preferences, time_slots_in_domain[i])]
                 total    == SumSeq(scores)
                 picked   == SelectSlot(time_slots_in_domain, scores, 0, d.rnum, total)
                 selected == IF picked = None THEN time_slots_in_domain[1] ELSE picked
                 possible_rooms == room_ids
                 new_room == possible_rooms[d.room]
             IN  IF selected = sched[course].time /\ new_room = sched[course].room
                 THEN NoProposal
                 ELSE SingleProposal(course, <<selected, new_room>>)
        ELSE IF Len(agent.courses) < 2 THEN NoProposal
        ELSE LET c1 == agent.courses[d.other[1]]
                 c2 == agent.courses[d.other[2]]
             IN  SwapProposal(c1, <<sched[c1].time, sched[c1].room>>,
                              c2, <<sched[c2].time, sched[c2].room>>)

\* a variant of generate_proposal whose swap leaves the second course where
\* it is
generate_proposal_swap_one_way(agent, sched, d) ==
    IF agent.courses = <<>> THEN NoProposal
    ELSE
    LET course == agent.courses[d.course]
    IN  IF d.single
        THEN LET time_slots_in_domain == slot_order
                 scores   == [i \in 1..Len(time_slots_in_domain) |->
                                 _score_time_slot(agent.preferences, time_slots_in_domain[i])]
                 total    == SumSeq(scores)
                 picked   == SelectSlot(time_slots_in_domain, scores, 0, d.rnum, total)
                 selected == IF picked = None THEN time_slots_in_domain[1] ELSE picked
                 possible_rooms == room_ids
                 new_room == possible_rooms[d.room]
             IN  IF selected = sched[course].time /\ new_room = sched[course].room
                 THEN NoProposal
                 ELSE SingleProposal(course, <<selected, new_room>>)
        ELSE IF Len(agent.courses) < 2 THEN NoProposal
        ELSE LET c1 == agent.courses[d.other[1]]
                 c2 == agent.courses[d.other[2]]
             IN  SwapProposal(c1, <<sched[c2].time, sched[c2].room>>,
                              c2, <<sched[c2].time, sched[c2].room>>)

\* a variant of generate_proposal that picks the course to reassign from
\* the list of all courses
generate_proposal_any_course(agent, sched, d) ==
    IF agent.courses = <<>> THEN NoProposal
    ELSE
    LET course == course_ids[d.course]
    IN  IF d.single
        THEN LET time_slots_in_domain == slot_order
                 scores   == [i \in 1..Len(time_slots_in_domain) |->
                                 _score_time_slot(agent.preferences, time_slots_in_domain[i])]
                 total    == SumSeq(scores)
                 picked   == SelectSlot(time_slots_in_domain, scores, 0, d.rnum, total)
                 selected == IF picked = None THEN time_slots_in_domain[1] ELSE picked
                 possible_rooms == room_ids
                 new_room == possible_rooms[d.room]
             IN  IF selected = sched[course].time /\ new_room = sched[course].room
                 THEN NoProposal
                 ELSE SingleProposal(course, <<selected, new_room>>)
        ELSE IF Len(agent.courses) < 2 THEN NoProposal
        ELSE LET c1 == agent.courses[d.other[1]]
                 c2 == agent.courses[d.other[2]]
             IN  SwapProposal(c1, <<sched[c2].time, sched[c2].room>>,
                              c2, <<sched[c1].time, sched[c1].room>>)

\* ProfessorAgent.generate_proposal; d holds what the rng returned
generate_proposal(agent, sched, d) ==
    IF agent.courses = <<>> THEN NoProposal
    ELSE
    LET course == agent.courses[d.course]
        domain == _domain_dict[course]
    IN  IF d.single
        THEN LET time_slots_in_domain == Filter(slot_order, {row[1] : row \in Range(domain)})
                 scores   == [i \in 1..Len(time_slots_in_domain) |->
                                 _score_time_slot(agent.preferences, time_slots_in_domain[i])]
                 total    == SumSeq(scores)
                 picked   == SelectSlot(time_slots_in_domain, scores, 0, d.rnum, total)
                 selected == IF picked = None THEN time_slots_in_domain[1] ELSE picked
                 possible_rooms == RoomsAt(domain, selected)
                 new_room == possible_rooms[d.room]
             IN  IF selected = sched[course].time /\ new_room = sched[course].room
                 THEN NoProposal
                 ELSE SingleProposal(course, <<selected, new_room>>)
        ELSE IF Len(agent.courses) < 2 THEN NoProposal
        ELSE LET c1 == agent.courses[d.other[1]]
                 c2 == agent.courses[d.other[2]]
             IN  SwapProposal(c1, <<sched[c2].time, sched[c2].room>>,
                              c2, <<sched[c1].time, sched[c1].room>>)

(***************************************************************************)
(* negotiation.py: NegotiationProtocol.                                    *)
(***************************************************************************)
\* random.Random(seed) before any call to it
SeededRandom(seed) == [seed |-> seed, calls |-> 0]

\* __init__'s default for rng_seed
DEFAULT_RNG_SEED == 0

\* no engine, hence no generator of it
NoRng == [seed |-> None, calls |-> 0]

\* __init__: {c: {"time": v[0], "room": v[1]} for c, v in schedule_A0.items()}
normalize_schedule(raw) == [c \in DOMAIN raw |-> [time |-> raw[c][1], room |-> raw[c][2]]]

\* the professors in the order data["professors"] first names them
RECURSIVE DiscoveryOrder(_, _)
DiscoveryOrder(cs, seen) ==
    IF cs = <<>> THEN <<>>
    ELSE IF professors[Head(cs)] \in seen THEN DiscoveryOrder(Tail(cs), seen)
    ELSE <<professors[Head(cs)]>> \o DiscoveryOrder(Tail(cs), seen \cup {professors[Head(cs)]})

\* _make_professor_agents: courses_by_prof, then one agent per professor
_make_professor_agents ==
    LET profs == DiscoveryOrder(course_ids, {})
    IN  [i \in 1..Len(profs) |->
            [agent_id    |-> profs[i],
             courses     |-> Filter(course_ids, {c \in Range(course_ids) : professors[c] = profs[i]}),
             preferences |-> Get(professor_preferences, profs[i], <<>>)]]

\* load_data: professor_priorities[prof] += enrollments[cid]
professor_priorities(prof) ==
    SumFn([c \in {x \in Range(course_ids) : professors[x] = prof} |-> enrollments[c]])

\* a variant of the sort that puts an agent before those of equal priority
RECURSIVE InsertByPriority_ties_reversed(_, _)
InsertByPriority_ties_reversed(sorted, a) ==
    IF sorted = <<>> THEN <<a>>
    ELSE IF professor_priorities(Head(sorted).agent_id) > professor_priorities(a.agent_id)
    THEN <<Head(sorted)>> \o InsertByPriority_ties_reversed(Tail(sorted), a)
    ELSE <<a>> \o sorted

\* list.sort(key=priority, reverse=True): stable, larger keys first
RECURSIVE InsertByPriority(_, _)
InsertByPriority(sorted, a) ==
    IF sorted = <<>> THEN <<a>>
    ELSE IF professor_priorities(Head(sorted).agent_id) >= professor_priorities(a.agent_id)
    THEN <<Head(sorted)>> \o InsertByPriority(Tail(sorted), a)
    ELSE <<a>> \o sorted

RECURSIVE SortByPriority(_, _)
SortByPriority(agents, sorted) ==
    IF agents = <<>> THEN sorted
    ELSE SortByPriority(Tail(agents), InsertByPriority(sorted, Head(agents)))

\* ProfessorAgent.__init__'s parameters after self, and those with a default
ProfessorAgentParams   == <<"prof_id", "courses", "preferences", "full_domain",
                            "time_slot_details", "rng">>
ProfessorAgentDefaults == {"rng"}

\* the call ProfessorAgent(prof, course_list, preferences, full_domain=..., rng=...)
CallPositional == <<"prof", "course_list", "preferences">>
CallKeywords   == {"full_domain", "rng"}

\* the parameters the call leaves without a value: Python raises TypeError
MissingArguments ==
    {ProfessorAgentParams[i] : i \in (Len(CallPositional) + 1)..Len(ProfessorAgentParams)}
    \ (CallKeywords \cup ProfessorAgentDefaults)

\* NegotiationProtocol(A0, data): main.py and run_single_trial call it on the
\* solver's schedule
Construct ==
    /\ pc = "solved"
    /\ schedule_A0' = solution
    /\ schedule' = normalize_schedule(solution)
    /\ IF _make_professor_agents /= <<>> /\ MissingArguments /= {}
       THEN /\ pc' = "construct_raised"
            /\ UNCHANGED prof_agents
       ELSE /\ prof_agents' = SortByPriority(_make_professor_agents, <<>>)
            /\ pc' = "constructed"
    /\ rng' = SeededRandom(DEFAULT_RNG_SEED)
    /\ UNCHANGED <<dataVars, solverVars, processVars, twinVars, callVars, history_costs,
                   max_rounds, no_improve_limit, current_cost, no_improve, improved,
                   round, agent_idx, prop>>

\* the values run is given for no_improve_limit
NoImproveLimits == {1, 2}

\* a variant of the start of run that records no cost for A0
RunWith_without_initial_cost(rounds, limit) ==
    /\ pc = "constructed"
    /\ max_rounds' = rounds
    /\ no_improve_limit' = limit
    /\ current_cost' = calculate_total_cost(schedule)
    /\ no_improve' = 0
    /\ round' = 0
    /\ pc' = "round_head"
    /\ UNCHANGED <<dataVars, solverVars, processVars, rng, schedule_A0, schedule, prof_agents,
                   history_costs, improved, agent_idx, prop>>

\* run(max_rounds, no_improve_limit), up to the first round
RunWith(rounds, limit) ==
    /\ pc = "constructed"
    /\ max_rounds' = rounds
    /\ no_improve_limit' = limit
    /\ current_cost' = calculate_total_cost(schedule)
    /\ history_costs' = Append(history_costs, calculate_total_cost(schedule))
    /\ no_improve' = 0
    /\ round' = 0
    /\ pc' = "round_head"
    /\ UNCHANGED <<dataVars, solverVars, processVars, rng, schedule_A0, schedule, prof_agents,
                   improved, agent_idx, prop>>

Run ==
    /\ \E rounds \in 0..MaxRoundsBound : \E limit \in NoImproveLimits : RunWith(rounds, limit)
    /\ UNCHANGED <<twinVars, callVars>>

\* "for _ in range(max_rounds): improved = False", or the return after the loop
BeginRound ==
    /\ pc = "round_head"
    /\ IF round < max_rounds
       THEN /\ round' = round + 1
            /\ improved' = FALSE
            /\ agent_idx' = 1
            /\ pc' = "agents"
       ELSE /\ pc' = "returned"
            /\ UNCHANGED <<round, improved, agent_idx>>
    /\ UNCHANGED <<dataVars, solverVars, processVars, rng, twinVars, callVars, schedule_A0, schedule,
                   prof_agents, history_costs, max_rounds, no_improve_limit, current_cost,
                   no_improve, prop>>

\* variants of the acceptance test: any cost, and equal cost too
accepts_any_cost(new_cost, cost) == TRUE
accepts_equal_cost(new_cost, cost) == new_cost <= cost

\* "Accept only improvements"
accepts(new_cost, cost) == new_cost < cost

\* a variant of the turn that works on the schedule the run started with
TurnWith_stale(d) ==
    /\ pc = "agents"
    /\ agent_idx <= Len(prof_agents)
    /\ LET start     == normalize_schedule(schedule_A0)
           p         == generate_proposal(prof_agents[agent_idx], start, d)
           new_sched == _apply_proposal(start, p)
           new_cost  == calculate_total_cost(new_sched)
       IN  /\ prop' = p
           /\ IF p /= NoProposal /\ validates(start, p) /\ new_cost < current_cost
              THEN /\ schedule' = new_sched
                   /\ current_cost' = new_cost
                   /\ improved' = TRUE
              ELSE UNCHANGED <<schedule, current_cost, improved>>
    /\ agent_idx' = agent_idx + 1
    /\ UNCHANGED <<dataVars, solverVars, processVars, rng, schedule_A0, prof_agents,
                   history_costs, max_rounds, no_improve_limit, no_improve, round, pc>>

\* a variant of the turn that leaves the agent loop when the registrar rejects
TurnWith_breaking_on_reject(d) ==
    /\ pc = "agents"
    /\ agent_idx <= Len(prof_agents)
    /\ LET p         == generate_proposal(prof_agents[agent_idx], schedule, d)
           new_sched == _apply_proposal(schedule, p)
           new_cost  == calculate_total_cost(new_sched)
       IN  /\ prop' = p
           /\ IF p /= NoProposal /\ validates(schedule, p) /\ accepts(new_cost, current_cost)
              THEN /\ schedule' = new_sched
                   /\ current_cost' = new_cost
                   /\ improved' = TRUE
              ELSE UNCHANGED <<schedule, current_cost, improved>>
           /\ agent_idx' = IF p /= NoProposal /\ ~validates(schedule, p)
                           THEN Len(prof_agents) + 1
                           ELSE agent_idx + 1
    /\ UNCHANGED <<dataVars, solverVars, processVars, rng, schedule_A0, prof_agents,
                   history_costs, max_rounds, no_improve_limit, no_improve, round, pc>>

\* a variant of the turn whose schedule shares its entries with the caller's
\* A0, so that an accepted proposal shows in A0 as well
TurnWith_writing_through(d) ==
    /\ pc = "agents"
    /\ agent_idx <= Len(prof_agents)
    /\ LET p         == generate_proposal(prof_agents[agent_idx], schedule, d)
           new_sched == _apply_proposal(schedule, p)
           new_cost  == calculate_total_cost(new_sched)
       IN  /\ prop' = p
           /\ IF p /= NoProposal /\ validates(schedule, p) /\ accepts(new_cost, current_cost)
              THEN /\ schedule' = new_sched
                   /\ schedule_A0' = [c \in DOMAIN new_sched |->
                                         <<new_sched[c].time, new_sched[c].room>>]
                   /\ current_cost' = new_cost
                   /\ improved' = TRUE
              ELSE UNCHANGED <<schedule, schedule_A0, current_cost, improved>>
    /\ agent_idx' = agent_idx + 1
    /\ UNCHANGED <<dataVars, solverVars, processVars, rng, prof_agents,
                   history_costs, max_rounds, no_improve_limit, no_improve, round, pc>>

\* a variant of the turn that takes over an accepted swap one entry at a
\* time and is seen by the next step after the first
TurnWith_applying_half(d) ==
    /\ pc = "agents"
    /\ agent_idx <= Len(prof_agents)
    /\ LET p         == generate_proposal(prof_agents[agent_idx], schedule, d)
           new_sched == _apply_proposal(schedule, p)
           new_cost  == calculate_total_cost(new_sched)
       IN  /\ prop' = p
           /\ IF p /= NoProposal /\ validates(schedule, p) /\ accepts(new_cost, current_cost)
              THEN /\ schedule' = [schedule EXCEPT ![p.course_a] = new_sched[p.course_a]]
                   /\ current_cost' = new_cost
                   /\ improved' = TRUE
              ELSE UNCHANGED <<schedule, current_cost, improved>>
    /\ agent_idx' = agent_idx + 1
    /\ UNCHANGED <<dataVars, solverVars, processVars, rng, schedule_A0, prof_agents,
                   history_costs, max_rounds, no_improve_limit, no_improve, round, pc>>

\* a variant of the turn that takes over an accepted schedule and keeps the
\* cost it had
TurnWith_keeping_cost(d) ==
    /\ pc = "agents"
    /\ agent_idx <= Len(prof_agents)
    /\ LET p         == generate_proposal(prof_agents[agent_idx], schedule, d)
           new_sched == _apply_proposal(schedule, p)
           new_cost  == calculate_total_cost(new_sched)
       IN  /\ prop' = p
           /\ IF p /= NoProposal /\ validates(schedule, p) /\ accepts(new_cost, current_cost)
              THEN /\ schedule' = new_sched
                   /\ current_cost' = current_cost
                   /\ improved' = TRUE
              ELSE UNCHANGED <<schedule, current_cost, improved>>
    /\ agent_idx' = agent_idx + 1
    /\ UNCHANGED <<dataVars, solverVars, processVars, rng, schedule_A0, prof_agents,
                   history_costs, max_rounds, no_improve_limit, no_improve, round, pc>>

\* one pass of the body of "for agent in self.prof_agents": propose,
\* validate, evaluate, accept
\* d is what the agent's rng returns during the turn
TurnWith(d) ==
    /\ pc = "agents"
    /\ agent_idx <= Len(prof_agents)
    /\ LET p         == generate_proposal(prof_agents[agent_idx], schedule, d)
           new_sched == _apply_proposal(schedule, p)
           new_cost  == calculate_total_cost(new_sched)
       IN  /\ prop' = p
           /\ IF p /= NoProposal /\ validates(schedule, p) /\ accepts(new_cost, current_cost)
              THEN /\ schedule' = new_sched
                   /\ current_cost' = new_cost
                   /\ improved' = TRUE
              ELSE UNCHANGED <<schedule, current_cost, improved>>
    /\ agent_idx' = agent_idx + 1
    /\ UNCHANGED <<dataVars, solverVars, processVars, rng, schedule_A0, prof_agents,
                   history_costs, max_rounds, no_improve_limit, no_improve, round, pc>>

\* the turn, for everything the rng can return
AgentTurn ==
    /\ pc = "agents"
    /\ agent_idx <= Len(prof_agents)
    /\ \E d \in AgentDraws(prof_agents[agent_idx]) : TurnWith(d)
    /\ UNCHANGED <<twinVars, callVars>>

\* a variant of the end of a round that keeps the streak after an improving round
EndRound_keeping_streak ==
    /\ pc = "agents"
    /\ agent_idx > Len(prof_agents)
    /\ history_costs' = Append(history_costs, current_cost)
    /\ IF improved
       THEN /\ no_improve' = no_improve
            /\ pc' = "round_head"
       ELSE /\ no_improve' = no_improve + 1
            /\ pc' = IF no_improve + 1 >= no_improve_limit THEN "returned" ELSE "round_head"
    /\ UNCHANGED <<dataVars, solverVars, processVars, rng, twinVars, callVars, schedule_A0, schedule,
                   prof_agents, max_rounds, no_improve_limit, current_cost, improved,
                   round, agent_idx, prop>>

\* a variant of the end of a round that never stops the run early
EndRound_without_limit ==
    /\ pc = "agents"
    /\ agent_idx > Len(prof_agents)
    /\ history_costs' = Append(history_costs, current_cost)
    /\ no_improve' = IF improved THEN 0 ELSE no_improve + 1
    /\ pc' = "round_head"
    /\ UNCHANGED <<dataVars, solverVars, processVars, rng, twinVars, callVars, schedule_A0,
                   schedule, prof_agents, max_rounds, no_improve_limit, current_cost,
                   improved, round, agent_idx, prop>>

\* after the agents: record the cost, count rounds without improvement
EndRound ==
    /\ pc = "agents"
    /\ agent_idx > Len(prof_agents)
    /\ history_costs' = Append(history_costs, current_cost)
    /\ IF improved
       THEN /\ no_improve' = 0
            /\ pc' = "round_head"
       ELSE /\ no_improve' = no_improve + 1
            /\ pc' = IF no_improve + 1 >= no_improve_limit THEN "returned" ELSE "round_head"
    /\ UNCHANGED <<dataVars, solverVars, processVars, rng, twinVars, callVars, schedule_A0, schedule,
                   prof_agents, max_rounds, no_improve_limit, current_cost, improved,
                   round, agent_idx, prop>>

(***************************************************************************)
(* Well-formed inputs for the solver.                                      *)
(***************************************************************************)
\* the nonempty selections of a catalogue, in catalogue order
Selections(cat) == {Filter(cat, S) : S \in (SUBSET Range(cat)) \ {{}}}

Prefixes(cat) == {SubSeq(cat, 1, n) : n \in 1..Len(cat)}

\* load_data without a preferences file: "Continuing without preferences"
NoPreferences ==
    /\ professor_preferences = <<>>
    /\ student_enrollments = <<>>
    /\ student_preferences = <<>>

\* hash(prof) % (2**32) of one process, as far as the model tells seeds apart
SeedValues   == {0, 1}
DefaultSeeds == [p \in {professors[c] : c \in DOMAIN professors} |-> 0]

\* no earlier run is on record
NoRun  == [run |-> "none"]
NoTwin == rng_log = <<>> /\ first_run = NoRun

\* no function has been called on its own
NoCall == [op |-> "none"]

\* no NegotiationProtocol yet
EngineIdle ==
    /\ schedule_A0 = <<>>
    /\ schedule = <<>>
    /\ rng = NoRng
    /\ prof_agents = <<>>
    /\ history_costs = <<>>
    /\ max_rounds = 0
    /\ no_improve_limit = 0
    /\ current_cost = 0
    /\ no_improve = 0
    /\ improved = FALSE
    /\ round = 0
    /\ agent_idx = 0
    /\ prop = NoProposal

\* preference records of preferences.json
MorningMW    == [time_of_day |-> "morning", preferred_days |-> {"M", "W"}, avoid_days |-> {"F"}]
AfternoonTR  == [time_of_day |-> "afternoon", preferred_days |-> {"T", "R"}, avoid_days |-> {}]
NoPreference == [time_of_day |-> "no_preference", preferred_days |-> {}, avoid_days |-> {}]
AvoidTuesday == [time_of_day |-> "morning", preferred_days |-> {}, avoid_days |-> {"T"}]

\* the inputs of the negotiation runs: an input file with its preferences file
InputFiles ==
    {[professors  |-> [c \in Range(CourseCatalog) |-> IF c = "CS_307" THEN "Prof_B" ELSE "Prof_A"],
      enrollments |-> [c \in Range(CourseCatalog) |-> 30],
      time_slots  |-> <<"MWF_1030", "TR_1030">>,
      professor_preferences |-> ("Prof_A" :> AvoidTuesday),
      student_enrollments   |-> ("S1" :> <<"CS_180", "CS_307">>) @@ ("S2" :> <<"CS_240", "CS_999">>),
      student_preferences   |-> ("S1" :> AfternoonTR)],
     [professors  |-> [c \in Range(CourseCatalog) |-> IF c = "CS_180" THEN "Prof_B" ELSE "Prof_A"],
      enrollments |-> [c \in Range(CourseCatalog) |-> IF c = "CS_180" THEN 120 ELSE 30],
      time_slots  |-> <<"MWF_1030", "MWF_1045">>,
      professor_preferences |-> ("Prof_A" :> MorningMW) @@ ("Prof_B" :> AfternoonTR),
      student_enrollments   |-> ("S1" :> <<"CS_180", "CS_240", "CS_307">>),
      student_preferences   |-> ("S1" :> NoPreference)],
     [professors  |-> [c \in Range(CourseCatalog) |-> "Prof_A"],
      enrollments |-> [c \in Range(CourseCatalog) |-> IF c = "CS_307" THEN 120 ELSE 30],
      time_slots  |-> <<"TR_1030", "MWF_1130">>,
      professor_preferences |-> ("Prof_A" :> MorningMW),
      student_enrollments   |-> ("S1" :> <<"CS_180", "CS_240">>) @@ ("S2" :> <<"CS_307", "CS_240">>),
      student_preferences   |-> ("S2" :> AfternoonTR)]}

\* find_initial_assignment's locals before the call
SolverIdle ==
    /\ domains = <<>>
    /\ assignments = <<>>
    /\ queue = <<>>
    /\ variable = None
    /\ values = <<>>
    /\ pushdomains = <<>>
    /\ solution = <<>>

SolverInit ==
    /\ course_ids \in Prefixes(CourseCatalog)
    /\ professors \in [Range(course_ids) -> ProfessorIds]
    /\ enrollments \in [Range(course_ids) -> EnrollmentValues]
    /\ \E rooms \in (SUBSET Range(RoomCatalog)) \ {{}} :
          room_capacities = [r \in rooms |-> RoomCapacity[r]]
    /\ time_slot_ids \in {s \in Selections(SlotCatalog) : Len(s) <= MaxSlots}
    /\ pc = "start"
    /\ SolverIdle
    /\ NoPreferences
    /\ slot_order = time_slot_ids
    /\ agent_seed = DefaultSeeds
    /\ EngineIdle
    /\ NoTwin
    /\ call = NoCall

\* main.py: find_initial_assignment(data), then NegotiationProtocol(A0, data)
SolverNext == Preprocess \/ SelectVariable \/ TryValue \/ Backtrack \/ Construct

SolverSpec == SolverInit /\ [][SolverNext]_vars

(***************************************************************************)
(* The engine as __init__ leaves it when the agents are built with         *)
(* ProfessorAgent's full argument list, for every A0 over the domain.      *)
(***************************************************************************)
Orderings(seq) ==
    {p \in [1..Len(seq) -> Range(seq)] : \A i, j \in 1..Len(seq) : i /= j => p[i] /= p[j]}

\* an input file in which a professor's two courses can be held without
\* overlap and only one of them fits the small room
TwoSizesInput ==
    [professors  |-> [c \in Range(CourseCatalog) |-> IF c = "CS_307" THEN "Prof_B" ELSE "Prof_A"],
     enrollments |-> [c \in Range(CourseCatalog) |-> IF c = "CS_180" THEN 120 ELSE 30],
     time_slots  |-> <<"MWF_1030", "TR_1030">>,
     professor_preferences |-> ("Prof_A" :> MorningMW),
     student_enrollments   |-> ("S1" :> <<"CS_180", "CS_307">>),
     student_preferences   |-> ("S1" :> AfternoonTR)]

\* the constructed engine for one of the given input files
InitOn(files) ==
    /\ course_ids = CourseCatalog
    /\ room_capacities = RoomCapacity
    /\ \E f \in files :
          /\ professors = f.professors
          /\ enrollments = f.enrollments
          /\ time_slot_ids = f.time_slots
          /\ professor_preferences = f.professor_preferences
          /\ student_enrollments = f.student_enrollments
          /\ student_preferences = f.student_preferences
    /\ slot_order \in Orderings(time_slot_ids)
    /\ agent_seed = DefaultSeeds
    /\ NoTwin
    /\ call = NoCall
    /\ SolverIdle
    /\ pc = "constructed"
    /\ schedule_A0 \in [Range(course_ids) -> Range(full_domain)]
    /\ schedule = normalize_schedule(schedule_A0)
    /\ rng = SeededRandom(DEFAULT_RNG_SEED)
    /\ prof_agents = SortByPriority(_make_professor_agents, <<>>)
    /\ history_costs = <<>>
    /\ max_rounds = 0
    /\ no_improve_limit = 0
    /\ current_cost = 0
    /\ no_improve = 0
    /\ improved = FALSE
    /\ round = 0
    /\ agent_idx = 0
    /\ prop = NoProposal

Init == InitOn(InputFiles)

Next == Run \/ BeginRound \/ AgentTurn \/ EndRound

Spec == Init /\ [][Next]_vars

(***************************************************************************)
(* The engine over every assignment of the courses to the professors, with *)
(* enrollments that make the professors' totals differ or tie.             *)
(***************************************************************************)
TieEnrollments == {30, 60}

OrderInit ==
    /\ course_ids = CourseCatalog
    /\ room_capacities = RoomCapacity
    /\ professors \in [Range(CourseCatalog) -> ProfessorIds]
    /\ enrollments \in [Range(CourseCatalog) -> TieEnrollments]
    /\ time_slot_ids = <<"MWF_1030", "TR_1030">>
    /\ professor_preferences = ("Prof_A" :> AvoidTuesday) @@ ("Prof_B" :> MorningMW)
    /\ student_enrollments = ("S1" :> <<"CS_180", "CS_307">>)
    /\ student_preferences = ("S1" :> AfternoonTR)
    /\ slot_order = time_slot_ids
    /\ agent_seed = DefaultSeeds
    /\ NoTwin
    /\ call = NoCall
    /\ SolverIdle
    /\ pc = "constructed"
    /\ \E cell \in Range(full_domain) : schedule_A0 = [c \in Range(course_ids) |-> cell]
    /\ schedule = normalize_schedule(schedule_A0)
    /\ rng = SeededRandom(DEFAULT_RNG_SEED)
    /\ prof_agents = SortByPriority(_make_professor_agents, <<>>)
    /\ history_costs = <<>>
    /\ max_rounds = 0
    /\ no_improve_limit = 0
    /\ current_cost = 0
    /\ no_improve = 0
    /\ improved = FALSE
    /\ round = 0
    /\ agent_idx = 0
    /\ prop = NoProposal

OrderSpec == OrderInit /\ [][Next]_vars

\* where run is in its loop
ctl == <<pc, agent_idx>>

\* run moves on: the statement at the current position of the loop completes
Advance ==
    \/ pc = "constructed" /\ pc' = "round_head" /\ agent_idx' = agent_idx
    \/ pc = "round_head" /\ pc' \in {"agents", "returned"} /\ agent_idx' \in {1, agent_idx}
    \/ pc = "agents" /\ agent_idx <= Len(prof_agents)
          /\ pc' = pc /\ agent_idx' = agent_idx + 1
    \/ pc = "agents" /\ agent_idx > Len(prof_agents)
          /\ pc' \in {"round_head", "returned"} /\ agent_idx' = agent_idx

\* run is one synchronous loop on one thread: nothing in it waits, so the
\* step at the current position is eventually taken
FairSpec == Init /\ [][Next]_vars /\ WF_ctl(Advance)

(***************************************************************************)
(* The functions of preference_scoring.py called on their own, for every   *)
(* slot of the table and every preference record.                          *)
(***************************************************************************)
Weekdays   == {"M", "T", "W", "R", "F"}
TimesOfDay == {"morning", "afternoon", "no_preference"}

\* the records preferences.json can hold for a professor or a student, and
\* the {} the callers pass for one without a record
PreferenceRecords ==
    [time_of_day : TimesOfDay, preferred_days : SUBSET Weekdays, avoid_days : SUBSET Weekdays]

NoRecord == <<>>

\* the data dictionary of load_data, nothing else started
ScoreInit ==
    /\ course_ids = CourseCatalog
    /\ professors = [c \in Range(CourseCatalog) |-> "Prof_A"]
    /\ enrollments = [c \in Range(CourseCatalog) |-> 30]
    /\ room_capacities = RoomCapacity
    /\ time_slot_ids = SlotCatalog
    /\ pc = "start"
    /\ SolverIdle
    /\ NoPreferences
    /\ slot_order = time_slot_ids
    /\ agent_seed = DefaultSeeds
    /\ EngineIdle
    /\ NoTwin
    /\ call = NoCall

\* score_time_of_day(time_slot_details[ts], prefs)
TimeScoreOf(ts, prefs) ==
    call' = [op |-> "score_time_of_day", args |-> <<ts, prefs>>,
             result |-> score_time_of_day(ts, prefs)]

\* score_days_of_week(time_slot_details[ts], prefs)
DayScoreOf(ts, prefs) ==
    call' = [op |-> "score_days_of_week", args |-> <<ts, prefs>>,
             result |-> score_days_of_week(ts, prefs)]

\* calculate_preference_score(ts, prefs, time_slot_details), with its locals
PreferenceScoreOf(ts, prefs) ==
    call' = [op |-> "calculate_preference_score", args |-> <<ts, prefs>>,
             time_score |-> score_time_of_day(ts, prefs),
             day_score |-> score_days_of_week(ts, prefs),
             result |-> calculate_preference_score(ts, prefs)]

CallTimeScore ==
    /\ call = NoCall
    /\ \E ts \in DOMAIN time_slot_details :
          \/ \E prefs \in PreferenceRecords : TimeScoreOf(ts, prefs)
          \/ TimeScoreOf(ts, NoRecord)
    /\ UNCHANGED <<dataVars, pc, solverVars, processVars, twinVars, engineVars>>

CallDayScore ==
    /\ call = NoCall
    /\ \E ts \in DOMAIN time_slot_details :
          \/ \E prefs \in PreferenceRecords : DayScoreOf(ts, prefs)
          \/ DayScoreOf(ts, NoRecord)
    /\ UNCHANGED <<dataVars, pc, solverVars, processVars, twinVars, engineVars>>

CallPreferenceScore ==
    /\ call = NoCall
    /\ \E ts \in DOMAIN time_slot_details :
          \/ \E prefs \in PreferenceRecords : PreferenceScoreOf(ts, prefs)
          \/ PreferenceScoreOf(ts, NoRecord)
    /\ UNCHANGED <<dataVars, pc, solverVars, processVars, twinVars, engineVars>>

ScoreNext == CallTimeScore \/ CallDayScore \/ CallPreferenceScore

ScoreSpec == ScoreInit /\ [][ScoreNext]_vars

(***************************************************************************)
(* The registrar's validates and utils.timeslots_overlap called on their   *)
(* own, on the schedule and the data of a constructed engine: one call per *)
(* behaviour, for every argument.                                          *)
(***************************************************************************)
\* every single proposal and every swap proposal over the Domain
CallProposals ==
    {SingleProposal(c, a) : c \in Range(course_ids), a \in Range(full_domain)}
    \cup {SwapProposal(c1, a1, c2, a2) : c1 \in Range(course_ids), a1 \in Range(full_domain),
                                         c2 \in Range(course_ids), a2 \in Range(full_domain)}

\* the engine of Init, in either order of list(set(...)), also for the
\* input file with two course sizes
FunctionInit == InitOn(InputFiles \cup {TwoSizesInput})

\* self.registrar.validates(self.schedule, proposal)
CallValidates ==
    /\ pc = "constructed"
    /\ call = NoCall
    /\ \E proposal \in CallProposals :
          /\ call' = [op |-> "validates", args |-> <<schedule, proposal>>,
                      result |-> validates(schedule, proposal)]
          /\ schedule' = schedule_after_validates(schedule, proposal)
    /\ UNCHANGED <<dataVars, pc, solverVars, processVars, rng, twinVars, schedule_A0,
                   prof_agents, history_costs, max_rounds, no_improve_limit, current_cost,
                   no_improve, improved, round, agent_idx, prop>>

\* timeslots_overlap(ts_id_1, ts_id_2, time_slot_details)
CallOverlap ==
    /\ pc = "constructed"
    /\ call = NoCall
    /\ \E ts_id_1, ts_id_2 \in DOMAIN time_slot_details :
          call' = [op |-> "timeslots_overlap", args |-> <<ts_id_1, ts_id_2>>,
                   result |-> timeslots_overlap(ts_id_1, ts_id_2)]
    /\ UNCHANGED <<dataVars, pc, solverVars, processVars, twinVars, engineVars>>

\* csp_solver.timeslots_overlap(ts_id_1, ts_id_2, time_slot_details)
CallCspOverlap ==
    /\ pc = "constructed"
    /\ call = NoCall
    /\ \E ts_id_1, ts_id_2 \in DOMAIN time_slot_details :
          call' = [op |-> "csp_timeslots_overlap", args |-> <<ts_id_1, ts_id_2>>,
                   raised |-> IF csp_overlap_raises(ts_id_1, ts_id_2) THEN "KeyError" ELSE None,
                   result |-> IF csp_overlap_raises(ts_id_1, ts_id_2) THEN None
                              ELSE IF csp_timeslots_overlap(ts_id_1, ts_id_2) THEN "True"
                              ELSE "False"]
    /\ UNCHANGED <<dataVars, pc, solverVars, processVars, twinVars, engineVars>>

\* a ProfessorAgent built with an empty course list
CourselessAgent == [agent_id |-> "Prof_C", courses |-> <<>>, preferences |-> <<>>]

\* an agent without courses returns before it uses its rng
NoDraws == [course |-> 0, single |-> TRUE, rnum |-> 0, room |-> 0, other |-> <<0, 0>>]

\* agent.generate_proposal(self.schedule), with the slots it enumerates and
\* the weights it gives them
CallGenerate ==
    /\ pc = "constructed"
    /\ call = NoCall
    /\ \E agent \in Range(prof_agents) \cup {CourselessAgent} :
          \E d \in (IF agent.courses = <<>> THEN {NoDraws} ELSE AgentDraws(agent)) :
             call' = [op |-> "generate_proposal", args |-> <<agent, schedule, d>>,
                      slots |-> slot_order,
                      weights |-> [i \in 1..Len(slot_order) |->
                                      _score_time_slot(agent.preferences, slot_order[i])],
                      result |-> generate_proposal(agent, schedule, d)]
    /\ UNCHANGED <<dataVars, pc, solverVars, processVars, twinVars, engineVars>>

\* calculate_total_cost(sched, data) on the engine's schedule or a part of
\* it, with the three components it computes
CallCost ==
    /\ pc = "constructed"
    /\ call = NoCall
    /\ \E present \in SUBSET DOMAIN schedule :
          LET sched == [c \in present |-> schedule[c]]
          IN  call' = [op |-> "calculate_total_cost", args |-> <<sched>>,
                       student_conflicts |-> calculate_student_conflicts(sched),
                       student_pref_penalty |-> calculate_student_preference_penalty(sched),
                       prof_penalty |-> calculate_professor_penalty(sched),
                       result |-> calculate_total_cost(sched)]
    /\ UNCHANGED <<dataVars, pc, solverVars, processVars, twinVars, engineVars>>

FunctionNext ==
    CallValidates \/ CallOverlap \/ CallCspOverlap \/ CallGenerate \/ CallCost

FunctionSpec == FunctionInit /\ [][FunctionNext]_vars

(***************************************************************************)
(* The same call of NegotiationProtocol(A0, data).run(...) made twice, the *)
(* second time in a process of its own.  A process fixes hash() of every   *)
(* string, hence each agent's seed hash(prof) % (2**32) and the order in   *)
(* which list(set(...)) yields the time slots.  random.Random(seed) is a   *)
(* function of its seed: an agent whose seed is the one it had in the      *)
(* first run gets from its rng what it got then, call for call.            *)
(***************************************************************************)
\* rounds of a run that is made twice
TwinRounds == 1

EmptyLog == [i \in 1..Len(prof_agents) |-> <<>>]

\* the input files in which one professor teaches every course
TwinInputs == {f \in InputFiles : \A c1, c2 \in Range(CourseCatalog) :
                                     f.professors[c1] = f.professors[c2]}

TwinInit ==
    /\ course_ids = CourseCatalog
    /\ room_capacities = RoomCapacity
    /\ \E f \in TwinInputs :
          /\ professors = f.professors
          /\ enrollments = f.enrollments
          /\ time_slot_ids = f.time_slots
          /\ professor_preferences = f.professor_preferences
          /\ student_enrollments = f.student_enrollments
          /\ student_preferences = f.student_preferences
    /\ slot_order \in Orderings(time_slot_ids)
    /\ agent_seed \in [DOMAIN DefaultSeeds -> SeedValues]
    /\ SolverIdle
    /\ pc = "constructed"
    /\ schedule_A0 \in {A0 \in [Range(course_ids) -> Range(full_domain)] :
                           /\ \A c \in Range(course_ids) :
                                  room_capacities[A0[c][2]] >= enrollments[c]
                           /\ \A c1, c2 \in Range(course_ids) :
                                  c1 /= c2 => A0[c1] /= A0[c2]}
    /\ schedule = normalize_schedule(schedule_A0)
    /\ rng = SeededRandom(DEFAULT_RNG_SEED)
    /\ prof_agents = SortByPriority(_make_professor_agents, <<>>)
    /\ history_costs = <<>>
    /\ max_rounds = 0
    /\ no_improve_limit = 0
    /\ current_cost = 0
    /\ no_improve = 0
    /\ improved = FALSE
    /\ round = 0
    /\ agent_idx = 0
    /\ prop = NoProposal
    /\ rng_log = EmptyLog
    /\ first_run = NoRun
    /\ call = NoCall

\* run's default for no_improve_limit
DEFAULT_NO_IMPROVE_LIMIT == 3

\* run(max_rounds=rounds): the second call repeats the first's arguments
TwinRun ==
    /\ IF first_run = NoRun
       THEN \E rounds \in 1..TwinRounds : RunWith(rounds, DEFAULT_NO_IMPROVE_LIMIT)
       ELSE RunWith(first_run.max_rounds, first_run.no_improve_limit)
    /\ UNCHANGED <<twinVars, callVars>>

\* a variant in which an agent's rng is seeded from the engine's rng_seed: it
\* repeats the first run's values only under the first run's rng_seed
TwinDraws_seeded_by_engine(i) ==
    LET agent == prof_agents[i]
        k     == Len(rng_log[i]) + 1
    IN  IF /\ first_run /= NoRun
           /\ first_run.agent_seed[agent.agent_id] = agent_seed[agent.agent_id]
           /\ first_run.rng_seed = rng.seed
           /\ k <= Len(first_run.rng_log[i])
        THEN {first_run.rng_log[i][k].draw}
        ELSE AgentDraws(agent)

\* what agent i's rng can return in its next turn
TwinDraws(i) ==
    LET agent == prof_agents[i]
        k     == Len(rng_log[i]) + 1
    IN  IF /\ first_run /= NoRun
           /\ first_run.agent_seed[agent.agent_id] = agent_seed[agent.agent_id]
           /\ k <= Len(first_run.rng_log[i])
        THEN {first_run.rng_log[i][k].draw}
        ELSE AgentDraws(agent)

TwinAgentTurn ==
    /\ pc = "agents"
    /\ agent_idx <= Len(prof_agents)
    /\ \E d \in TwinDraws(agent_idx) :
          /\ TurnWith(d)
          /\ rng_log' = [rng_log EXCEPT ![agent_idx] =
                              Append(@, [draw |-> d, proposal |-> prop'])]
    /\ UNCHANGED <<first_run, callVars>>

\* the first run has returned; a new process makes the same call
SecondProcess ==
    /\ pc = "returned"
    /\ first_run = NoRun
    /\ first_run' = [run |-> "returned", slot_order |-> slot_order, agent_seed |-> agent_seed,
                     rng_seed |-> rng.seed, rng_log |-> rng_log, max_rounds |-> max_rounds,
                     no_improve_limit |-> no_improve_limit, schedule |-> schedule,
                     history_costs |-> history_costs]
    /\ slot_order' \in Orderings(time_slot_ids)
    /\ agent_seed' \in [DOMAIN agent_seed -> SeedValues]
    /\ rng_log' = EmptyLog
    /\ pc' = "constructed"
    /\ schedule' = normalize_schedule(schedule_A0)
    /\ rng' = SeededRandom(rng.seed)
    /\ history_costs' = <<>>
    /\ max_rounds' = 0
    /\ no_improve_limit' = 0
    /\ current_cost' = 0
    /\ no_improve' = 0
    /\ improved' = FALSE
    /\ round' = 0
    /\ agent_idx' = 0
    /\ prop' = NoProposal
    /\ UNCHANGED <<dataVars, solverVars, schedule_A0, prof_agents, callVars>>

TwinNext == TwinRun \/ BeginRound \/ TwinAgentTurn \/ EndRound \/ SecondProcess

TwinSpec == TwinInit /\ [][TwinNext]_vars

(***************************************************************************)
(* The same call made twice in one process, on two engines that are given  *)
(* different values of rng_seed (run_single_trial: rng_seed=seed + 1000).  *)
(* The process is the same, so hash() is: each agent's seed and the order  *)
(* of list(set(...)) are those of the first run.                           *)
(***************************************************************************)
\* the rng_seed values an engine is given, as far as the model tells them apart
RngSeeds == {0, 1}

SeedInit ==
    /\ course_ids = CourseCatalog
    /\ room_capacities = RoomCapacity
    /\ \E f \in InputFiles :
          /\ professors = f.professors
          /\ enrollments = f.enrollments
          /\ time_slot_ids = f.time_slots
          /\ professor_preferences = f.professor_preferences
          /\ student_enrollments = f.student_enrollments
          /\ student_preferences = f.student_preferences
    /\ slot_order \in Orderings(time_slot_ids)
    /\ agent_seed = DefaultSeeds
    /\ SolverIdle
    /\ pc = "constructed"
    /\ schedule_A0 \in {A0 \in [Range(course_ids) -> Range(full_domain)] :
                           /\ \A c \in Range(course_ids) :
                                  room_capacities[A0[c][2]] >= enrollments[c]
                           /\ \A c1, c2 \in Range(course_ids) :
                                  c1 /= c2 => A0[c1] /= A0[c2]}
    /\ schedule = normalize_schedule(schedule_A0)
    /\ rng = SeededRandom(DEFAULT_RNG_SEED)
    /\ prof_agents = SortByPriority(_make_professor_agents, <<>>)
    /\ history_costs = <<>>
    /\ max_rounds = 0
    /\ no_improve_limit = 0
    /\ current_cost = 0
    /\ no_improve = 0
    /\ improved = FALSE
    /\ round = 0
    /\ agent_idx = 0
    /\ prop = NoProposal
    /\ rng_log = EmptyLog
    /\ first_run = NoRun
    /\ call = NoCall

\* the first run has returned; the process builds a second engine on the
\* same A0 and data, NegotiationProtocol(A0, data, rng_seed=seed), and
\* makes the same call of run
SecondEngine ==
    /\ pc = "returned"
    /\ first_run = NoRun
    /\ first_run' = [run |-> "returned", slot_order |-> slot_order, agent_seed |-> agent_seed,
                     rng_seed |-> rng.seed, rng_log |-> rng_log, max_rounds |-> max_rounds,
                     no_improve_limit |-> no_improve_limit, schedule |-> schedule,
                     history_costs |-> history_costs]
    /\ \E seed \in RngSeeds : rng' = SeededRandom(seed)
    /\ rng_log' = EmptyLog
    /\ pc' = "constructed"
    /\ schedule' = normalize_schedule(schedule_A0)
    /\ history_costs' = <<>>
    /\ max_rounds' = 0
    /\ no_improve_limit' = 0
    /\ current_cost' = 0
    /\ no_improve' = 0
    /\ improved' = FALSE
    /\ round' = 0
    /\ agent_idx' = 0
    /\ prop' = NoProposal
    /\ UNCHANGED <<dataVars, solverVars, processVars, schedule_A0, prof_agents, callVars>>

SeedNext == TwinRun \/ BeginRound \/ TwinAgentTurn \/ EndRound \/ SecondEngine

SeedSpec == SeedInit /\ [][SeedNext]_vars


(***************************************************************************)
(* The hard constraints, as section 4.4 of the design states them, on a    *)
(* schedule course -> [time, room].                                        *)
(***************************************************************************)
RoomCapacityHolds(sched) ==
    \A c \in DOMAIN sched : room_capacities[sched[c].room] >= enrollments[c]

NoRoomCollision(sched) ==
    \A c1, c2 \in DOMAIN sched :
        (c1 /= c2 /\ sched[c1].room = sched[c2].room)
            => ~timeslots_overlap(sched[c1].time, sched[c2].time)

NoInstructorCollision(sched) ==
    \A c1, c2 \in DOMAIN sched :
        (c1 /= c2 /\ professors[c1] = professors[c2])
            => ~timeslots_overlap(sched[c1].time, sched[c2].time)

AllHardConstraints(sched) ==
    RoomCapacityHolds(sched) /\ NoRoomCollision(sched) /\ NoInstructorCollision(sched)

\* some assignment of the Domain satisfies the three hard constraints
Feasible ==
    \E f \in [Range(course_ids) -> Range(full_domain)] :
        AllHardConstraints(normalize_schedule(f))

\* find_initial_assignment has returned a schedule
SolveReturnedSchedule == pc \in {"solved", "construct_raised", "constructed"}

(***************************************************************************)
(* Claims about find_initial_assignment (SolverSpec).                      *)
(***************************************************************************)
\* C1: any schedule find_initial_assignment returns gives every course one
\* (time slot, room) pair of the Domain, with room capacity >= enrollment,
\* no two courses overlapping in one room, and no two courses of one
\* professor overlapping.
C1_ReturnedScheduleFeasible ==
    SolveReturnedSchedule =>
        /\ DOMAIN solution = Range(course_ids)
        /\ \A c \in DOMAIN solution : solution[c] \in Range(full_domain)
        /\ AllHardConstraints(normalize_schedule(solution))

\* a returned schedule in which two courses share a room and two share a professor
C1_Witness ==
    /\ pc = "solved"
    /\ \E c1, c2 \in DOMAIN solution : c1 /= c2 /\ solution[c1][2] = solution[c2][2]
    /\ \E c1, c2 \in DOMAIN solution : c1 /= c2 /\ professors[c1] = professors[c2]

\* C2: solve reports infeasibility only when no assignment satisfies the
\* three hard constraints, and returns a schedule whenever one exists.
C2_SolveDecidesFeasibility ==
    /\ pc = "infeasible" => ~Feasible
    /\ Feasible => pc \notin {"infeasible", "solve_raised"}
    /\ ~Feasible => pc /= "solve_raised"

\* C3: find_initial_assignment never ends in a raised error.
C3_SolveNeverRaises == pc /= "solve_raised"

\* C4: constructing the Negotiation Engine on the solver's schedule never
\* aborts with an error.
C4_ConstructionNeverRaises == pc /= "construct_raised"

(***************************************************************************)
(* Claims about NegotiationProtocol.run (Spec).                            *)
(***************************************************************************)
\* an agent turn is taken in this step
TurnTaken == pc = "agents" /\ agent_idx' = agent_idx + 1

ShouldAccept ==
    /\ prop' /= NoProposal
    /\ RoomCapacityHolds(_apply_proposal(schedule, prop'))
    /\ NoRoomCollision(_apply_proposal(schedule, prop'))
    /\ calculate_total_cost(_apply_proposal(schedule, prop')) < current_cost

AssignmentOf(sched, c) == <<sched[c].time, sched[c].room>>

Running == pc \in {"round_head", "agents", "returned"}

RunStarts == pc = "constructed" /\ pc' /= pc
RoundStarts == pc = "round_head" /\ pc' = "agents"
RoundEnds == pc = "agents" /\ pc' /= pc

RECURSIVE TotalEnrollment(_, _)
TotalEnrollment(prof, cs) ==
    IF cs = <<>> THEN 0
    ELSE (IF professors[Head(cs)] = prof THEN enrollments[Head(cs)] ELSE 0)
         + TotalEnrollment(prof, Tail(cs))

\* where the course-to-professor mapping first names prof
FirstAppearance(prof) ==
    CHOOSE i \in 1..Len(course_ids) :
        /\ professors[course_ids[i]] = prof
        /\ \A j \in 1..(i - 1) : professors[course_ids[j]] /= prof

\* a goes before b: more enrolled students, or as many and named earlier
TakesTurnBefore(a, b) ==
    \/ TotalEnrollment(a, course_ids) > TotalEnrollment(b, course_ids)
    \/ /\ TotalEnrollment(a, course_ids) = TotalEnrollment(b, course_ids)
       /\ FirstAppearance(a) < FirstAppearance(b)

Rejectable(sched, p) ==
    /\ p /= NoProposal
    /\ ~(RoomCapacityHolds(_apply_proposal(sched, p))
            /\ NoRoomCollision(_apply_proposal(sched, p)))

\* the turn before the current position ended with its proposal rejected:
\* an accepted proposal is part of the schedule, and applying it again
\* gives the schedule itself, which passed the registrar
LastProposalRejected == pc = "agents" /\ agent_idx > 1 /\ Rejectable(schedule, prop)

C17_ValidatesKeepsSchedule ==
    call.op = "validates" =>
        /\ DOMAIN schedule = DOMAIN call.args[1]
        /\ \A c \in DOMAIN schedule : schedule[c] = call.args[1][c]

\* validates returned true for a swap that changes both courses
C17_Witness ==
    /\ call.op = "validates"
    /\ call.result
    /\ call.args[2].proposal_type = "swap"
    /\ call.args[2].course_a /= call.args[2].course_b
    /\ call.args[2].new_assignment_a
          /= <<schedule[call.args[2].course_a].time, schedule[call.args[2].course_a].room>>
    /\ call.args[2].new_assignment_b
          /= <<schedule[call.args[2].course_b].time, schedule[call.args[2].course_b].room>>

\* the schedule with the proposal's one or two assignments put in
WithProposal(sched, p) ==
    [c \in DOMAIN sched |->
        IF p.proposal_type = "swap" /\ c = p.course_b
        THEN [time |-> p.new_assignment_b[1], room |-> p.new_assignment_b[2]]
        ELSE IF c = p.course_a
        THEN [time |-> p.new_assignment_a[1], room |-> p.new_assignment_a[2]]
        ELSE sched[c]]

\* C18: validates returns true exactly when, in the schedule with the
\* proposal applied, every course is in a room of capacity >= its
\* enrollment and no two courses in one room have overlapping time slots.
C18_ValidatesIffFeasible ==
    call.op = "validates" =>
        LET after == WithProposal(call.args[1], call.args[2])
        IN  call.result =
               (/\ \A c \in DOMAIN after : room_capacities[after[c].room] >= enrollments[c]
                /\ \A c1, c2 \in DOMAIN after :
                       (c1 /= c2 /\ after[c1].room = after[c2].room)
                          => ~timeslots_overlap(after[c1].time, after[c2].time))

\* validates returned false for a proposal whose own courses fit and collide
\* with nothing: a course the proposal leaves alone is in too small a room
C18_Witness ==
    /\ call.op = "validates"
    /\ ~call.result
    /\ LET p     == call.args[2]
           after == WithProposal(call.args[1], p)
           own   == {p.course_a, p.course_b} \cap DOMAIN after
       IN  /\ \A c \in own : room_capacities[after[c].room] >= enrollments[c]
           /\ \A c1 \in own : \A c2 \in DOMAIN after :
                  (c1 /= c2 /\ after[c1].room = after[c2].room)
                     => ~timeslots_overlap(after[c1].time, after[c2].time)
           /\ \E c \in DOMAIN after \ own :
                  room_capacities[after[c].room] < enrollments[c]

\* C19: timeslots_overlap gives the same answer with its two time slots
\* exchanged.
C19_OverlapSymmetric ==
    call.op = "timeslots_overlap" =>
        call.result = timeslots_overlap(call.args[2], call.args[1])

\* two different slots, the first starting before the second ends, that do
\* not overlap
C19_Witness ==
    /\ call.op = "timeslots_overlap"
    /\ call.args = <<"MWF_1030", "MWF_1130">>
    /\ ~call.result

\* minutes since midnight at which a slot starts and ends
StartMinute(ts) ==
    60 * time_slot_details[ts].start_time[1] + time_slot_details[ts].start_time[2]
EndMinute(ts) == StartMinute(ts) + time_slot_details[ts].duration_min

\* C20: timeslots_overlap is false for slots without a common weekday;
\* with one it is true exactly when each slot starts before the other
\* ends, so a slot that starts when the other ends does not overlap it;
\* MWF 10:30 (50 min) overlaps MWF 10:45 (50 min) and not MWF 11:30.
C20_OverlapDefinition ==
    call.op = "timeslots_overlap" =>
        LET a == call.args[1]
            b == call.args[2]
            shared == \E day \in time_slot_details[a].days : day \in time_slot_details[b].days
        IN  /\ ~shared => ~call.result
            /\ shared => call.result = (StartMinute(a) < EndMinute(b)
                                          /\ StartMinute(b) < EndMinute(a))
            /\ (EndMinute(a) = StartMinute(b) \/ EndMinute(b) = StartMinute(a))
                  => ~call.result
            /\ call.args = <<"MWF_1030", "MWF_1045">> => call.result
            /\ call.args = <<"MWF_1030", "MWF_1130">> => ~call.result

\* two slots on the same weekdays, the second starting at the minute the
\* first ends, reported as not overlapping
C20_Witness ==
    /\ call.op = "timeslots_overlap"
    /\ time_slot_details[call.args[1]].days = time_slot_details[call.args[2]].days
    /\ EndMinute(call.args[1]) = StartMinute(call.args[2])
    /\ ~call.result

\* C21: the solver's overlap test returns, for every pair of time slots,
\* what the canonical timeslots_overlap returns for the pair.
C21_SolverOverlapAgrees ==
    call.op = "csp_timeslots_overlap" =>
        /\ call.raised = None
        /\ call.result = (IF timeslots_overlap(call.args[1], call.args[2])
                          THEN "True" ELSE "False")

\* where the solver's test returns a value it is the canonical one
C21_AgreesWhereItReturns ==
    (call.op = "csp_timeslots_overlap" /\ call.raised = None) =>
        call.result = (IF timeslots_overlap(call.args[1], call.args[2])
                       THEN "True" ELSE "False")

(***************************************************************************)
(* Claims about preference_scoring.py (ScoreSpec).                         *)
(***************************************************************************)
\* C22: the score of a slot under a preference record, the empty record
\* included, is between 0 and 1 (1000 thousandths).
C22_ScoreInUnitInterval ==
    call.op = "calculate_preference_score" => (0 <= call.result /\ call.result <= 1000)

\* the score 1.0: the time of day matches and every day of the slot is preferred
C22_Witness ==
    /\ call.op = "calculate_preference_score"
    /\ call.result = 1000
    /\ call.args[2] /= NoRecord

\* the fields of a preference record, absent ones as empty
PreferredDays(prefs) == IF prefs = NoRecord THEN {} ELSE prefs.preferred_days
AvoidDays(prefs) == IF prefs = NoRecord THEN {} ELSE prefs.avoid_days
TimeOfDay(prefs) == IF prefs = NoRecord THEN "no_preference" ELSE prefs.time_of_day

\* C23: the day score is 0.1 when the slot has an avoided day, whatever
\* the preferred days; else 0.5 + 0.5 * |slot days that are preferred| /
\* |slot days| when the slot has a preferred day; else 0.5 when neither
\* preferred nor avoided days are set; else 0.3.  {morning, preferred
\* [M, W], avoid [F]} against MWF 10:30 has time score 1.0, day score 0.1,
\* score 0.55.
C23_DayScorePriority ==
    /\ call.op = "score_days_of_week" =>
          LET days      == time_slot_details[call.args[1]].days
              preferred == PreferredDays(call.args[2])
              avoided   == AvoidDays(call.args[2])
              num       == call.result[1]
              den       == call.result[2]
          IN  /\ den > 0
              /\ IF days \cap avoided /= {} THEN num = 100 * den
                 ELSE IF days \cap preferred /= {}
                 THEN num * Cardinality(days)
                         = den * (500 * Cardinality(days)
                                    + 500 * Cardinality(days \cap preferred))
                 ELSE IF preferred = {} /\ avoided = {} THEN num = 500 * den
                 ELSE num = 300 * den
    /\ (call.op = "calculate_preference_score"
          /\ call.args = <<"MWF_1030", [time_of_day |-> "morning",
                                        preferred_days |-> {"M", "W"},
                                        avoid_days |-> {"F"}]>>) =>
          /\ call.time_score = 1000
          /\ call.day_score[1] = 100 * call.day_score[2]
          /\ call.result = 550

\* a slot with both a preferred and an avoided day got the day score 0.1
C23_Witness ==
    /\ call.op = "score_days_of_week"
    /\ call.args[2] /= NoRecord
    /\ time_slot_details[call.args[1]].days \cap AvoidDays(call.args[2]) /= {}
    /\ time_slot_details[call.args[1]].days \cap PreferredDays(call.args[2]) /= {}
    /\ call.result = <<100, 1>>

\* C24: the time score is 0.5 for no_preference; for morning 1.0 when the
\* start hour h has 7 <= h < 12 and 0.2 otherwise; for afternoon 1.0 when
\* 12 <= h < 17 and 0.2 otherwise.
C24_TimeScoreWindows ==
    call.op = "score_time_of_day" =>
        LET h    == time_slot_details[call.args[1]].start_time[1]
            pref == TimeOfDay(call.args[2])
        IN  /\ pref = "no_preference" => call.result = 500
            /\ pref = "morning" =>
                  call.result = (IF 7 <= h /\ h < 12 THEN 1000 ELSE 200)
            /\ pref = "afternoon" =>
                  call.result = (IF 12 <= h /\ h < 17 THEN 1000 ELSE 200)
            /\ (h < 7 \/ h >= 17) =>
                  (pref \in {"morning", "afternoon"} => call.result = 200)

\* a 12:00 start scored 0.2 for a morning preference
C24_Witness ==
    /\ call.op = "score_time_of_day"
    /\ time_slot_details[call.args[1]].start_time = <<12, 0>>
    /\ TimeOfDay(call.args[2]) = "morning"
    /\ call.result = 200

(***************************************************************************)
(* Claims about ProfessorAgent.generate_proposal (FunctionSpec).           *)
(***************************************************************************)
\* the sum of the first k weights
CumWeight(w, k) == SumSeq(SubSeq(w, 1, k))

\* the first position whose cumulative weight reaches r = (rnum / RngGrain)
\* of the total weight
FirstReaching(w, rnum) ==
    CHOOSE k \in 1..Len(w) :
        /\ rnum * CumWeight(w, Len(w)) <= CumWeight(w, k) * RngGrain
        /\ \A j \in 1..(k - 1) : rnum * CumWeight(w, Len(w)) > CumWeight(w, j) * RngGrain

\* the (time slot, room) a single reassignment draws in the recorded call
DrawnAssignment ==
    <<call.slots[FirstReaching(call.weights, call.args[3].rnum)],
      room_ids[call.args[3].room]>>

\* the course the recorded call picked first
DrawnCourse == call.args[1].courses[call.args[3].course]

\* C25: generate_proposal returns none exactly when the agent has no
\* courses, or the single branch drew the course's current time slot and
\* room, or the swap branch was taken by an agent with fewer than two
\* courses; otherwise it returns a single or a swap proposal.
C25_NoneExactlyWhen ==
    call.op = "generate_proposal" =>
        LET agent == call.args[1]
            sched == call.args[2]
            d     == call.args[3]
        IN  /\ (call.result = NoProposal) =
                  (\/ agent.courses = <<>>
                   \/ /\ agent.courses /= <<>>
                      /\ d.single
                      /\ DrawnAssignment = <<sched[DrawnCourse].time, sched[DrawnCourse].room>>
                   \/ /\ agent.courses /= <<>>
                      /\ ~d.single
                      /\ Len(agent.courses) < 2)
            /\ call.result /= NoProposal =>
                  call.result.proposal_type = (IF d.single THEN "single" ELSE "swap")

\* the single branch drew the current assignment of the course
C25_Witness ==
    /\ call.op = "generate_proposal"
    /\ call.args[1].courses /= <<>>
    /\ call.args[3].single
    /\ call.result = NoProposal

\* C26: a swap proposal names two different courses of the agent; the new
\* assignment of each is the (time slot, room) the other has in the
\* schedule given to generate_proposal.
C26_SwapExchanges ==
    (call.op = "generate_proposal" /\ call.result /= NoProposal
        /\ call.result.proposal_type = "swap") =>
        LET p     == call.result
            sched == call.args[2]
        IN  /\ p.course_a /= p.course_b
            /\ {p.course_a, p.course_b} \subseteq Range(call.args[1].courses)
            /\ p.new_assignment_a = <<sched[p.course_b].time, sched[p.course_b].room>>
            /\ p.new_assignment_b = <<sched[p.course_a].time, sched[p.course_a].room>>

\* a swap of two courses that differ in time slot and in room
C26_Witness ==
    /\ call.op = "generate_proposal"
    /\ call.result /= NoProposal
    /\ call.result.proposal_type = "swap"
    /\ call.result.new_assignment_a[1] /= call.result.new_assignment_b[1]
    /\ call.result.new_assignment_a[2] /= call.result.new_assignment_b[2]

\* the slot and the room of a single proposal are drawn as described: the
\* first slot whose cumulative weight reaches r, a room paired with it
SingleDrawnByWeight ==
    (call.op = "generate_proposal" /\ call.result /= NoProposal
        /\ call.result.proposal_type = "single") =>
        /\ call.result.new_assignment_a = DrawnAssignment
        /\ call.result.new_assignment_a \in Range(full_domain)
        /\ Range(call.slots) = Range(time_slot_ids)
        /\ Len(call.slots) = Len(time_slot_ids)

\* C27: in a single reassignment every time slot of the Domain has the
\* weight score(preference, slot) + 0.1, for an agent without a preference
\* record too; the slot chosen is the first whose cumulative weight
\* reaches r, and the room is one the Domain pairs with it.
C27_SlotWeights ==
    /\ (call.op = "generate_proposal" /\ call.args[1].courses /= <<>>
          /\ call.args[3].single) =>
          \A i \in 1..Len(call.slots) :
             call.weights[i]
                = calculate_preference_score(call.slots[i], call.args[1].preferences) + 100
    /\ SingleDrawnByWeight

\* the weights are score + 0.1 for every agent that has a preference record
C27_WeightsWithRecord ==
    (call.op = "generate_proposal" /\ call.args[1].preferences /= NoRecord) =>
        \A i \in 1..Len(call.slots) :
           call.weights[i]
              = calculate_preference_score(call.slots[i], call.args[1].preferences) + 100

(***************************************************************************)
(* Claims about objective.py.                                              *)
(***************************************************************************)
\* the (student, position in the student's course list) pairs whose course
\* is in the schedule
EnrolledPresent(sched) ==
    {si \in UNION {{<<sid, i>> : i \in 1..Len(student_enrollments[sid])} :
                      sid \in DOMAIN student_enrollments} :
        student_enrollments[si[1]][si[2]] \in DOMAIN sched}

\* 3.0 * (1 - score) summed over those pairs, in thousandths
StudentPrefPenaltyOf(sched) ==
    SumFn([si \in EnrolledPresent(sched) |->
              3 * (1000 - calculate_preference_score(
                              sched[student_enrollments[si[1]][si[2]]].time,
                              IF si[1] \in DOMAIN student_preferences
                              THEN student_preferences[si[1]] ELSE NoRecord))])

C29_StudentConflictsCount ==
    call.op = "calculate_total_cost" =>
        LET sched == call.args[1]
        IN  call.student_conflicts =
               Cardinality(
                  {t \in UNION {{<<sid, i, j>> : i \in 1..Len(student_enrollments[sid]),
                                                j \in 1..Len(student_enrollments[sid])} :
                                   sid \in DOMAIN student_enrollments} :
                      /\ t[2] < t[3]
                      /\ student_enrollments[t[1]][t[2]] \in DOMAIN sched
                      /\ student_enrollments[t[1]][t[3]] \in DOMAIN sched
                      /\ timeslots_overlap(sched[student_enrollments[t[1]][t[2]]].time,
                                           sched[student_enrollments[t[1]][t[3]]].time)})

\* a conflict counted in a schedule that lacks a course of the student's
\* list, between courses in different rooms
C29_Witness ==
    /\ call.op = "calculate_total_cost"
    /\ call.student_conflicts = 1
    /\ \E sid \in DOMAIN student_enrollments :
          /\ Len(student_enrollments[sid]) = 3
          /\ \E i \in 1..3 : student_enrollments[sid][i] \notin DOMAIN call.args[1]
    /\ \E c1, c2 \in DOMAIN call.args[1] :
          /\ call.args[1][c1].room /= call.args[1][c2].room
          /\ timeslots_overlap(call.args[1][c1].time, call.args[1][c2].time)
          /\ \E sid \in DOMAIN student_enrollments :
                {c1, c2} \subseteq Range(student_enrollments[sid])

\* C30 (FunctionSpec): the professor penalty of a schedule is the sum, over
\* its courses, of 5.0 * (1 - score(preference of the course's professor,
\* assigned slot)) * E / 100, E being the total enrollment of all courses
\* of that professor in the data, in the schedule or not.  In units of
\* 1e-5: thousandths of penalty times E.
C30_ProfPenaltySum ==
    call.op = "calculate_total_cost" =>
        LET sched == call.args[1]
        IN  call.prof_penalty =
               SumFn([c \in DOMAIN sched |->
                         5 * (1000 - calculate_preference_score(
                                         sched[c].time,
                                         IF professors[c] \in DOMAIN professor_preferences
                                         THEN professor_preferences[professors[c]]
                                         ELSE NoRecord))
                           * TotalEnrollment(professors[c], course_ids)])

\* a penalty for a schedule that holds one of a professor's two courses,
\* whose enrollments differ
C30_Witness ==
    /\ call.op = "calculate_total_cost"
    /\ call.prof_penalty > 0
    /\ \E c1 \in DOMAIN call.args[1] : \E c2 \in Range(course_ids) \ DOMAIN call.args[1] :
          /\ professors[c1] = professors[c2]
          /\ enrollments[c1] /= enrollments[c2]

\* each student's course list without the courses the schedule does not hold
WithoutAbsent(sched) ==
    [sid \in DOMAIN student_enrollments |-> Filter(student_enrollments[sid], DOMAIN sched)]

\* C31 (FunctionSpec): when a student's course list names a course that is
\* not in the schedule, totalCost returns a value, and that course adds
\* nothing to studentConflicts nor to studentPrefPenalty: the components
\* and the cost are those computed with the absent courses taken off the
\* students' lists.
C31_AbsentCoursesCostNothing ==
    call.op = "calculate_total_cost" =>
        LET sched == call.args[1]
        IN  /\ call.result \in Nat
            /\ call.student_conflicts = student_conflicts_of(sched, WithoutAbsent(sched))
            /\ call.student_pref_penalty
                  = student_preference_penalty_of(sched, WithoutAbsent(sched))
            /\ call.result = total_cost_of(sched, WithoutAbsent(sched))

\* a cost with a student conflict, for a schedule that lacks a course of a
\* student who also has a course in it
C31_Witness ==
    /\ call.op = "calculate_total_cost"
    /\ call.student_conflicts > 0
    /\ call.student_pref_penalty > 0
    /\ \E sid \in DOMAIN student_enrollments :
          /\ Range(student_enrollments[sid]) \cap DOMAIN call.args[1] /= {}
          /\ Range(student_enrollments[sid]) \ DOMAIN call.args[1] /= {}

ChangedCourses == {c \in DOMAIN schedule : schedule'[c] /= schedule[c]}

\* a step in which the engine accepts the proposal of the turn
AcceptStep == pc = "agents" /\ agent_idx' = agent_idx + 1 /\ improved' /\ current_cost' /= current_cost

C36_SwapKeepsCollisionFree ==
    (call.op = "generate_proposal" /\ call.result.proposal_type = "swap") =>
        LET sched == call.args[2]
            p     == call.result
            after == WithProposal(sched, p)
        IN  /\ professors[p.course_a] = professors[p.course_b]
            /\ NoRoomCollision(sched) => NoRoomCollision(after)
            /\ NoInstructorCollision(sched) => NoInstructorCollision(after)
            /\ (NoRoomCollision(sched) /\ ~validates(sched, p)) => ~RoomCapacityHolds(after)

\* a swap proposed on a schedule that meets all three hard constraints and
\* rejected by the validator: the larger course would get the small room
C36_Witness ==
    /\ call.op = "generate_proposal"
    /\ call.result.proposal_type = "swap"
    /\ AllHardConstraints(call.args[2])
    /\ ~validates(call.args[2], call.result)
    /\ NoRoomCollision(WithProposal(call.args[2], call.result))
    /\ NoInstructorCollision(WithProposal(call.args[2], call.result))
    /\ ~RoomCapacityHolds(WithProposal(call.args[2], call.result))

\* the courses a proposal names
NamedCourses(p) ==
    IF p.proposal_type = "none" THEN {}
    ELSE IF p.proposal_type = "single" THEN {p.course_a}
    ELSE {p.course_a, p.course_b}

Domain == Range(time_slot_ids) \X DOMAIN room_capacities

=============================================================================
